---- MODULE Spec2Model ----
(***************************************************************************)
(* Model of package tables (jacygao/tables): reconciliation of DynamoDB    *)
(* table schemas declared in configuration against the live tables.        *)
(*                                                                         *)
(*   tables.go      TableInfo, CreateTableInput, NewGlobalSecondaryIndex,  *)
(*                  UpdateTableInputBase, NewUpdateTimeToLiveInput,        *)
(*                  withPrefix, contains                                   *)
(*   diff.go        DiffTableDesc, DiffGSI, DiffKeySchema, ...             *)
(*   controller.go  Controller.Validate / Migrate / compare / migrate /    *)
(*                  createTable / updateTTL / updateTable                  *)
(*   errors.go      the sentinel errors                                    *)
(*                                                                         *)
(* Conventions.  A Go pointer or optional value is a sequence of length 0  *)
(* (nil) or 1.  A Go string built with fmt.Sprintf is a sequence of string *)
(* pieces; it is the empty Go string iff the sequence is empty.  The text  *)
(* go-cmp prints for a mismatch is the single piece CmpText.               *)
(***************************************************************************)
EXTENDS Integers, Sequences, FiniteSets, TLC

(***************************************************************************)
(* Bounds of the model and program constants.                              *)
(***************************************************************************)
\* number of tables in the configuration (len(c.Tables))
NumTables == 2
\* transient (resource-in-use / limit-exceeded) answers the service gives in one run
MaxBusy == 2
\* other failures (describe or mutating call) the service gives in one run
MaxFaults == 1
\* transient answers the service gives in a run that exhausts the retries:
\* one more than the attempt ceiling
RetryBusy == 101
\* controller.go: const MultiIndexUpdateRetryAttempts
MultiIndexUpdateRetryAttempts == 100

Nil == <<>>
Ptr(x) == <<x>>
Deref(p) == p[1]

(***************************************************************************)
(* Errors.  aws is the outcome of the type assertion err.(awserr.Error),   *)
(* code is aerr.Code() for a service error and the message otherwise.      *)
(***************************************************************************)
NoError == [aws |-> FALSE, code |-> ""]
AwsError(c) == [aws |-> TRUE, code |-> c]
PlainError(m) == [aws |-> FALSE, code |-> m]
ErrCodeResourceNotFoundException == "ResourceNotFoundException"
ErrCodeResourceInUseException == "ResourceInUseException"
ErrCodeLimitExceededException == "LimitExceededException"
ErrBackwardIncompatible == PlainError("table definition contains backward incompatible changes")
ErrBackwardCompatible == PlainError("table definition contains backward compatible changes")
ErrRequestWithMaxRetry == PlainError("request has reached the maximum number of retry attempts")
ErrInvalidMigrationInput == PlainError("cannot migrate table input with unrecoverable errors")

(***************************************************************************)
(* Strings are compared by Go with <: the names used by the model, in      *)
(* that order.                                                             *)
(***************************************************************************)
NameOrder == <<"created", "email", "expires", "id", "name", "owner", "status">>
Rank(s) == CHOOSE i \in DOMAIN NameOrder : NameOrder[i] = s
StringLess(a, b) == Rank(a) < Rank(b)

\* sort.Slice(obj, less by AttributeName) for a list whose names are distinct
RECURSIVE SortAttributeDefinitions(_)
SortAttributeDefinitions(xs) ==
  IF Len(xs) <= 1 THEN xs
  ELSE LET m == CHOOSE i \in DOMAIN xs :
                  \A j \in DOMAIN xs :
                     ~StringLess(xs[j].AttributeName, xs[i].AttributeName)
           rest == SubSeq(xs, 1, m - 1) \o SubSeq(xs, m + 1, Len(xs))
       IN <<xs[m]>> \o SortAttributeDefinitions(rest)

\* sort.Slice(p.NonKeyAttributes, less) for a list of distinct strings
RECURSIVE SortStrings(_)
SortStrings(xs) ==
  IF Len(xs) <= 1 THEN xs
  ELSE LET m == CHOOSE i \in DOMAIN xs :
                  \A j \in DOMAIN xs : ~StringLess(xs[j], xs[i])
           rest == SubSeq(xs, 1, m - 1) \o SubSeq(xs, m + 1, Len(xs))
       IN <<xs[m]>> \o SortStrings(rest)

(***************************************************************************)
(* tables.go: the desired-state builder.                                   *)
(***************************************************************************)
\* mutant: the prefix is applied whenever the environment is set
withPrefix_EnvOnly(env, title, tableName) ==
  IF env # ""
  THEN <<title, "-", env, "-", tableName>>
  ELSE <<tableName>>

withPrefix(env, title, tableName) ==
  IF env # "" /\ title # ""
  THEN <<title, "-", env, "-", tableName>>
  ELSE <<tableName>>

contains(attributes, attributeName) ==
  \E i \in DOMAIN attributes : attributes[i].AttributeName = attributeName

NewGlobalSecondaryIndex(index) ==
  [IndexName |-> index.IndexName,
   KeySchema |->
     <<[AttributeName |-> index.PrimaryKey, KeyType |-> "HASH"]>> \o
     (IF index.SortKey # ""
      THEN <<[AttributeName |-> index.SortKey, KeyType |-> "RANGE"]>>
      ELSE <<>>),
   Projection |-> [NonKeyAttributes |-> <<"id">> \o index.ProjectedFields,
                   ProjectionType |-> "INCLUDE"],
   ProvisionedThroughput |-> [ReadCapacityUnits |-> index.ReadThroughput,
                              WriteCapacityUnits |-> index.WriteThroughput]]

\* the loop over table.Indexes that appends the index key attributes not yet declared
RECURSIVE IndexAttributes(_, _, _)
IndexAttributes(defs, indexes, k) ==
  IF k > Len(indexes) THEN defs
  ELSE LET index == indexes[k]
           d1 == IF ~contains(defs, index.PrimaryKey)
                 THEN Append(defs, [AttributeName |-> index.PrimaryKey,
                                    AttributeType |-> index.PrimaryKeyType])
                 ELSE defs
           d2 == IF index.SortKey # "" /\ ~contains(d1, index.SortKey)
                 THEN Append(d1, [AttributeName |-> index.SortKey,
                                  AttributeType |-> index.SortKeyType])
                 ELSE d1
       IN IndexAttributes(d2, indexes, k + 1)

TableAttributes(table) ==
  <<[AttributeName |-> table.PrimaryKey, AttributeType |-> "S"]>> \o
  (IF table.SortKey # ""
   THEN <<[AttributeName |-> table.SortKey, AttributeType |-> table.SortKeyType]>>
   ELSE <<>>)

CreateTableInput(table, envPrefix) ==
  [TableName |-> withPrefix(envPrefix, table.Title, table.TableName),
   AttributeDefinitions |-> IndexAttributes(TableAttributes(table), table.Indexes, 1),
   KeySchema |->
     <<[AttributeName |-> table.PrimaryKey, KeyType |-> "HASH"]>> \o
     (IF table.SortKey # ""
      THEN <<[AttributeName |-> table.SortKey, KeyType |-> "RANGE"]>>
      ELSE <<>>),
   ProvisionedThroughput |-> [ReadCapacityUnits |-> table.ReadThroughput,
                              WriteCapacityUnits |-> table.WriteThroughput],
   GlobalSecondaryIndexes |->
     [k \in 1..Len(table.Indexes) |-> NewGlobalSecondaryIndex(table.Indexes[k])],
   LocalSecondaryIndexes |-> <<>>]

UpdateTableInputBase(table, envPrefix) ==
  [TableName |-> withPrefix(envPrefix, table.Title, table.TableName),
   AttributeDefinitions |-> IndexAttributes(TableAttributes(table), table.Indexes, 1),
   ProvisionedThroughput |-> Nil,
   GlobalSecondaryIndexUpdates |-> <<>>]

NewUpdateTimeToLiveInput(table, envPrefix, ttl) ==
  IF ttl # Nil
  THEN Ptr([TableName |-> withPrefix(envPrefix, table.Title, table.TableName),
            TimeToLiveSpecification |-> [AttributeName |-> Deref(ttl).AttributeName,
                                         Enabled |-> Deref(ttl).Enabled]])
  ELSE Nil

(***************************************************************************)
(* diff.go: the diff engine.  cmp.Diff returns "" iff its arguments are    *)
(* equal, and a report otherwise.                                          *)
(***************************************************************************)
CmpText == "(-want +got)"
cmpDiff(x, y) == IF x = y THEN <<>> ELSE <<CmpText>>

DiffIndexName(name1, name2) == cmpDiff(name1, name2)

\* mutant: only the read units are compared
DiffProvisionedThroughput_ReadOnly(pt1, pt2) ==
  cmpDiff(pt1.ReadCapacityUnits, pt2.ReadCapacityUnits)

DiffProvisionedThroughput(pt1, pt2) == cmpDiff(pt1, pt2)

DiffKeySchema(obj1, obj2) == cmpDiff(obj1, obj2)

\* mutant: the two lists are compared as they come, without sorting
DiffAttributeDefinitions_Unsorted(obj1, obj2) == cmpDiff(obj1, obj2)

DiffAttributeDefinitions(obj1, obj2) ==
  cmpDiff(SortAttributeDefinitions(obj1), SortAttributeDefinitions(obj2))

DiffProjection(p1, p2) ==
  cmpDiff([p1 EXCEPT !.NonKeyAttributes = SortStrings(@)],
          [p2 EXCEPT !.NonKeyAttributes = SortStrings(@)])

DiffLSI(input1, input2) == cmpDiff(input1, input2)

DiffTTL(desc1, desc2) == cmpDiff(desc1, desc2)

\* make([]*LocalSecondaryIndex, l) followed by one append per live index:
\* l nil entries, then the l converted indexes
ConvertedLSI(descLSI) ==
  [k \in 1..Len(descLSI) |-> Nil] \o
  [k \in 1..Len(descLSI) |->
     Ptr([IndexName |-> descLSI[k].IndexName,
          KeySchema |-> descLSI[k].KeySchema,
          Projection |-> descLSI[k].Projection])]

DiffTableDesc(desc, input) ==
  LET d1 == DiffKeySchema(desc.KeySchema, input.KeySchema)
      diff1 == IF Len(d1) > 0 THEN <<"Key Schedma: ">> \o d1 ELSE <<>>
      d2 == IF Len(desc.LocalSecondaryIndexes) > 0
            THEN DiffLSI(ConvertedLSI(desc.LocalSecondaryIndexes),
                         input.LocalSecondaryIndexes)
            ELSE <<>>
  IN IF Len(d2) > 0 THEN <<"LSI: ">> \o diff1 \o d2 ELSE diff1

\* newObj: the live indexes by name (a later entry of the same name replaces
\* an earlier one), each converted to a GlobalSecondaryIndex
LiveIndexNames(desc) == {desc[k].IndexName : k \in DOMAIN desc}
LiveIndexMap(desc) ==
  [n \in LiveIndexNames(desc) |->
     LET k == CHOOSE i \in DOMAIN desc :
                /\ desc[i].IndexName = n
                /\ \A j \in DOMAIN desc : desc[j].IndexName = n => j <= i
     IN [IndexName |-> desc[k].IndexName,
         KeySchema |-> desc[k].KeySchema,
         Projection |-> desc[k].Projection,
         ProvisionedThroughput |->
           [ReadCapacityUnits |-> desc[k].ProvisionedThroughput.ReadCapacityUnits,
            WriteCapacityUnits |-> desc[k].ProvisionedThroughput.WriteCapacityUnits]]]

CreateIndexAction(gsi) ==
  [Kind |-> "Create",
   IndexName |-> gsi.IndexName,
   KeySchema |-> gsi.KeySchema,
   Projection |-> Ptr(gsi.Projection),
   ProvisionedThroughput |-> gsi.ProvisionedThroughput]

UpdateIndexAction(gsi) ==
  [Kind |-> "Update",
   IndexName |-> gsi.IndexName,
   KeySchema |-> <<>>,
   Projection |-> Nil,
   ProvisionedThroughput |-> gsi.ProvisionedThroughput]

\* mutant: the Update action carries the throughput of the live index
DiffGSIStep_LiveThroughput(newObj, gsi, acc) ==
  IF gsi.IndexName \notin DOMAIN newObj
  THEN [acc EXCEPT !.GSIInput = Append(@, CreateIndexAction(gsi)),
                   !.diff = <<"missing index: ", gsi.IndexName>>,
                   !.Diff = <<"missing index: ", gsi.IndexName>>]
  ELSE LET obj == newObj[gsi.IndexName]
           dn == DiffIndexName(obj.IndexName, gsi.IndexName)
           dk == DiffKeySchema(obj.KeySchema, gsi.KeySchema)
           dp == DiffProjection(obj.Projection, gsi.Projection)
           dt == DiffProvisionedThroughput(obj.ProvisionedThroughput,
                                           gsi.ProvisionedThroughput)
       IN [acc EXCEPT !.diff = @ \o dn \o dk \o dp \o dt \o dn \o dk \o dp \o dt,
                      !.GSIInput = IF Len(dt) > 0
                                   THEN Append(@, UpdateIndexAction(obj))
                                   ELSE @]

\* one iteration of the loop over the desired indexes; acc holds the local
\* diff and the GSIResult built so far
DiffGSIStep(newObj, gsi, acc) ==
  IF gsi.IndexName \notin DOMAIN newObj
  THEN [acc EXCEPT !.GSIInput = Append(@, CreateIndexAction(gsi)),
                   !.diff = <<"missing index: ", gsi.IndexName>>,
                   !.Diff = <<"missing index: ", gsi.IndexName>>]
  ELSE LET obj == newObj[gsi.IndexName]
           dn == DiffIndexName(obj.IndexName, gsi.IndexName)
           dk == DiffKeySchema(obj.KeySchema, gsi.KeySchema)
           dp == DiffProjection(obj.Projection, gsi.Projection)
           dt == DiffProvisionedThroughput(obj.ProvisionedThroughput,
                                           gsi.ProvisionedThroughput)
       IN [acc EXCEPT !.diff = @ \o dn \o dk \o dp \o dt \o dn \o dk \o dp \o dt,
                      !.GSIInput = IF Len(dt) > 0
                                   THEN Append(@, UpdateIndexAction(gsi))
                                   ELSE @]

RECURSIVE DiffGSILoop(_, _, _, _)
DiffGSILoop(newObj, input, k, acc) ==
  IF k > Len(input) THEN acc
  ELSE DiffGSILoop(newObj, input, k + 1, DiffGSIStep(newObj, input[k], acc))

\* GSIResult.CanMigrate, which compare reads: false iff some desired index is
\* present live with another key schema or projection
GSICanMigrate(desc, input) ==
  \A k \in DOMAIN input :
     input[k].IndexName \in LiveIndexNames(desc) =>
       LET obj == LiveIndexMap(desc)[input[k].IndexName]
       IN /\ Len(DiffIndexName(obj.IndexName, input[k].IndexName)) = 0
          /\ Len(DiffKeySchema(obj.KeySchema, input[k].KeySchema)) = 0
          /\ Len(DiffProjection(obj.Projection, input[k].Projection)) = 0

DiffGSI(desc, input) ==
  IF Len(desc) = 0 /\ Len(input) = 0
  THEN [GSIInput |-> <<>>, Diff |-> <<>>, CanMigrate |-> TRUE]
  ELSE LET acc == DiffGSILoop(LiveIndexMap(desc), input, 1,
                              [diff |-> <<>>, Diff |-> <<>>, GSIInput |-> <<>>])
       IN [GSIInput |-> acc.GSIInput,
           Diff |-> IF Len(acc.diff) > 0 THEN acc.diff ELSE acc.Diff,
           CanMigrate |-> GSICanMigrate(desc, input)]

(***************************************************************************)
(* controller.go: compare, the per-table classifier.  It makes up to two   *)
(* remote calls (describe-table, describe-TTL); the operators below are    *)
(* the code that runs after each of them.                                  *)
(***************************************************************************)
EmptyTableInfo ==
  [Title |-> "", TableName |-> "", PrimaryKey |-> "", SortKey |-> "",
   SortKeyType |-> "", ReadThroughput |-> 0, WriteThroughput |-> 0,
   Indexes |-> <<>>, TTL |-> Nil]

\* &ValidationResult{}
EmptyValidationResult ==
  [TableInput |-> EmptyTableInfo, CreateTableInput |-> Nil,
   UpdateTableInput |-> <<>>, UpdateTTLInput |-> Nil,
   Diff |-> <<>>, CanMigrate |-> FALSE, Error |-> NoError]

\* result := &ValidationResult{TableInput: tbl}
NewValidationResult(tbl) == [EmptyValidationResult EXCEPT !.TableInput = tbl]

\* mutant: a missing table also gets a separate TTL update queued
compareDescribeFailed_WithTTL(tbl, env, err) ==
  IF err.aws /\ err.code = ErrCodeResourceNotFoundException
  THEN [result |-> Ptr([NewValidationResult(tbl) EXCEPT
                          !.CreateTableInput = Ptr(CreateTableInput(tbl, env)),
                          !.UpdateTTLInput = NewUpdateTimeToLiveInput(tbl, env, tbl.TTL),
                          !.CanMigrate = TRUE,
                          !.Diff = <<"missing table: ", tbl.TableName>>]),
        err |-> NoError]
  ELSE [result |-> Nil, err |-> err]

\* mutant: the ResourceNotFound branch leaves CanMigrate at its zero value
compareDescribeFailed_NoCanMigrate(tbl, env, err) ==
  IF err.aws /\ err.code = ErrCodeResourceNotFoundException
  THEN [result |-> Ptr([NewValidationResult(tbl) EXCEPT
                          !.CreateTableInput = Ptr(CreateTableInput(tbl, env)),
                          !.Diff = <<"missing table: ", tbl.TableName>>]),
        err |-> NoError]
  ELSE [result |-> Nil, err |-> err]

\* describeTable failed with err: the ResourceNotFound branch, or (nil, err)
compareDescribeFailed(tbl, env, err) ==
  IF err.aws /\ err.code = ErrCodeResourceNotFoundException
  THEN [result |-> Ptr([NewValidationResult(tbl) EXCEPT
                          !.CreateTableInput = Ptr(CreateTableInput(tbl, env)),
                          !.CanMigrate = TRUE,
                          !.Diff = <<"missing table: ", tbl.TableName>>]),
        err |-> NoError]
  ELSE [result |-> Nil, err |-> err]

\* the description compare holds once the diff functions have returned:
\* sort.Slice in DiffAttributeDefinitions sorts desc.AttributeDefinitions in
\* place, and DiffProjection, called by DiffGSI for every desired index that
\* is live, sorts the NonKeyAttributes of the live index, whose Projection
\* pointer the map of DiffGSI shares with the description
DescAfterDiff(desc, input) ==
  LET desired == {input.GlobalSecondaryIndexes[k].IndexName :
                    k \in DOMAIN input.GlobalSecondaryIndexes}
  IN [desc EXCEPT
        !.AttributeDefinitions = SortAttributeDefinitions(@),
        !.GlobalSecondaryIndexes =
           [k \in DOMAIN @ |->
              IF @[k].IndexName \in desired
              THEN [@[k] EXCEPT !.Projection.NonKeyAttributes = SortStrings(@)]
              ELSE @[k]]]

\* mutant: every index action goes into one request
indexUpdateRequests_Batched(tbl, env, queued, actions) ==
  IF actions = <<>> THEN queued
  ELSE Append(queued, [UpdateTableInputBase(tbl, env) EXCEPT
                         !.GlobalSecondaryIndexUpdates = actions])

\* the loop over diffGSI.GSIInput: one UpdateTableInputBase per index action,
\* appended to result.UpdateTableInput
indexUpdateRequests(tbl, env, queued, actions) ==
  queued \o
  [k \in 1..Len(actions) |->
     [UpdateTableInputBase(tbl, env) EXCEPT
        !.GlobalSecondaryIndexUpdates = <<actions[k]>>]]

\* the table exists: attribute definitions, table description, throughput and
\* GSI are compared; the locals diff, canMigrate and result before the TTL part
compareTable(tbl, env, desc) ==
  LET input == CreateTableInput(tbl, env)
      da == DiffAttributeDefinitions(desc.AttributeDefinitions,
                                     input.AttributeDefinitions)
      diff0 == IF Len(da) > 0 THEN <<"Attribute Definition: ">> \o da ELSE <<>>
      d == DiffTableDesc(desc, input)
      canMigrate1 == ~(Len(d) > 0)
      diff1 == IF Len(d) > 0 THEN d ELSE diff0
      diffPt == DiffProvisionedThroughput(
                  [ReadCapacityUnits |-> desc.ProvisionedThroughput.ReadCapacityUnits,
                   WriteCapacityUnits |-> desc.ProvisionedThroughput.WriteCapacityUnits],
                  input.ProvisionedThroughput)
      diff2 == IF Len(diffPt) > 0
               THEN diff1 \o <<", Throughput: ">> \o diffPt
               ELSE diff1
      upd1 == IF Len(diffPt) > 0
              THEN <<[UpdateTableInputBase(tbl, env) EXCEPT
                        !.ProvisionedThroughput = Ptr(input.ProvisionedThroughput)]>>
              ELSE <<>>
      diffGSI == DiffGSI(desc.GlobalSecondaryIndexes, input.GlobalSecondaryIndexes)
      gsiDiffers == Len(diffGSI.Diff) > 0
      diff3 == IF gsiDiffers THEN diff2 \o <<", GSI: ">> \o diffGSI.Diff ELSE diff2
      canMigrate2 == IF gsiDiffers THEN diffGSI.CanMigrate ELSE canMigrate1
      upd2 == IF gsiDiffers /\ canMigrate2
              THEN indexUpdateRequests(tbl, env, upd1, diffGSI.GSIInput)
              ELSE upd1
  IN [result |-> [NewValidationResult(tbl) EXCEPT !.UpdateTableInput = upd2],
      diff |-> diff3,
      canMigrate |-> canMigrate2,
      desc |-> Ptr(DescAfterDiff(desc, input))]

\* result.Diff = diff; result.CanMigrate = canMigrate; return result, nil
compareFinish(loc) ==
  [result |-> Ptr([loc.result EXCEPT !.Diff = loc.diff,
                                     !.CanMigrate = loc.canMigrate]),
   err |-> NoError]

\* the TTL part once describeTTL has returned (ttl, err)
compareTTL(tbl, env, loc, ttl, err) ==
  IF err # NoError
  THEN [result |-> Ptr(loc.result), err |-> err]
  ELSE IF ttl = Nil
  THEN [result |-> Ptr([loc.result EXCEPT
                          !.UpdateTTLInput = NewUpdateTimeToLiveInput(tbl, env, tbl.TTL)]),
        err |-> NoError]
  ELSE LET ttlStatus == IF Deref(tbl.TTL).Enabled = FALSE THEN "DISABLED" ELSE "ENABLED"
           expected == [AttributeName |-> Deref(tbl.TTL).AttributeName,
                        TimeToLiveStatus |-> ttlStatus]
           d == DiffTTL(Deref(ttl), expected)
       IN IF Len(d) > 0
          THEN compareFinish(
                 [loc EXCEPT !.diff = @ \o <<", TTL: ">> \o d,
                             !.result.UpdateTTLInput =
                                NewUpdateTimeToLiveInput(tbl, env, tbl.TTL)])
          ELSE compareFinish(loc)

\* compare(tbl) as a whole, when both fetches answer from the live table
compare(tbl, env, live) ==
  IF live = Nil
  THEN compareDescribeFailed(tbl, env, AwsError(ErrCodeResourceNotFoundException))
  ELSE LET loc == compareTable(tbl, env, Deref(live).Table)
       IN IF tbl.TTL # Nil
          THEN compareTTL(tbl, env, loc, Deref(live).TTL, NoError)
          ELSE compareFinish(loc)

\* mutant: the goroutine forgets result.Error = err
validateResult_DropError(cmp) ==
  IF cmp.err # NoError
  THEN [EmptyValidationResult EXCEPT !.CanMigrate = FALSE]
  ELSE Deref(cmp.result)

\* the goroutine body of Validate after compare returned (result, err)
validateResult(cmp) ==
  IF cmp.err # NoError
  THEN [EmptyValidationResult EXCEPT !.CanMigrate = FALSE, !.Error = cmp.err]
  ELSE Deref(cmp.result)

\* the loop over the closed channel and the verdict of Validate
isBackwardIncompatible(rs) == \E k \in DOMAIN rs : ~rs[k].CanMigrate
isDiff(rs) == \E k \in DOMAIN rs : Len(rs[k].Diff) > 0
\* mutant: the diff is looked at before the incompatibility
validateError_DiffFirst(rs) ==
  IF isDiff(rs) THEN ErrBackwardCompatible
  ELSE IF isBackwardIncompatible(rs) THEN ErrBackwardIncompatible
  ELSE NoError

validateError(rs) ==
  IF isBackwardIncompatible(rs) THEN ErrBackwardIncompatible
  ELSE IF isDiff(rs) THEN ErrBackwardCompatible
  ELSE NoError

(***************************************************************************)
(* controller.go: migrate and the retrying executors, as pure steps.       *)
(***************************************************************************)
\* mutant: only r.Error is looked at, CanMigrate is not
migrateRefused_ErrorOnly(r) == r.Error # NoError

\* the early returns of migrate: the result cannot be migrated
migrateRefused(r) == r.Error # NoError \/ ~r.CanMigrate

\* the stages of migrate in program order: 1 createTable, 2 updateTTL,
\* 2 + k updateTable(r.UpdateTableInput[k]); FirstStage is the first stage at
\* or after s whose condition holds, 0 when none is left
RECURSIVE FirstStage(_, _)
FirstStage(r, s) ==
  IF s = 1 THEN (IF r.CreateTableInput # Nil THEN 1 ELSE FirstStage(r, 2))
  ELSE IF s = 2 THEN (IF r.UpdateTTLInput # Nil THEN 2 ELSE FirstStage(r, 3))
  ELSE IF s - 2 <= Len(r.UpdateTableInput) THEN s
  ELSE 0

StagePc(s) ==
  IF s = 0 THEN "done"
  ELSE IF s = 1 THEN "createTable"
  ELSE IF s = 2 THEN "updateTTL"
  ELSE "updateTable"

\* mutant: a new error replaces the errors collected so far
appendError_KeepLast(errs, err) == IF err # NoError THEN <<err>> ELSE errs

\* errs = append(errs, err) when the call of a stage returned err
appendError(errs, err) == IF err # NoError THEN Append(errs, err) ELSE errs

\* mutant: updateTTL sleeps and calls again after any service error
updateTTLStep_RetryAny(i, err) ==
  IF err = NoError THEN [returned |-> TRUE, err |-> NoError]
  ELSE IF err.aws THEN [returned |-> FALSE, err |-> NoError]
  ELSE [returned |-> TRUE, err |-> err]

\* mutant: updateTTL retries on limit-exceeded as updateTable does
updateTTLStep_RetryLimit(i, err) ==
  IF err = NoError THEN [returned |-> TRUE, err |-> NoError]
  ELSE IF err.aws /\ err.code \in {ErrCodeLimitExceededException,
                                   ErrCodeResourceInUseException}
  THEN [returned |-> FALSE, err |-> NoError]
  ELSE [returned |-> TRUE, err |-> err]

\* the body of the loop of updateTTL: i is the loop variable, err the answer
\* of UpdateTimeToLive; returned tells whether updateTTL returns from the
\* body, and when it does not the goroutine sleeps and continues with i + 1
updateTTLStep(i, err) ==
  IF err = NoError THEN [returned |-> TRUE, err |-> NoError]
  ELSE IF err.aws /\ err.code = ErrCodeResourceInUseException
  THEN [returned |-> FALSE, err |-> NoError]
  ELSE [returned |-> TRUE, err |-> err]

\* the loop condition of updateTTL: i < MultiIndexUpdateRetryAttempts; when
\* it fails updateTTL returns ErrRequestWithMaxRetry
updateTTLLoop(i) == i < MultiIndexUpdateRetryAttempts

\* mutant: a success leaves the loop and falls through to the final return
\* unless it is the first attempt
updateTableStep_BreakOnSuccess(i, err) ==
  IF err = NoError
  THEN [returned |-> TRUE, err |-> IF i = 0 THEN NoError ELSE ErrRequestWithMaxRetry]
  ELSE IF err.aws /\ err.code \in {ErrCodeLimitExceededException,
                                   ErrCodeResourceInUseException}
  THEN [returned |-> FALSE, err |-> NoError]
  ELSE [returned |-> TRUE, err |-> err]

\* the body of the loop of updateTable
updateTableStep(i, err) ==
  IF err = NoError THEN [returned |-> TRUE, err |-> NoError]
  ELSE IF err.aws /\ err.code \in {ErrCodeLimitExceededException,
                                   ErrCodeResourceInUseException}
  THEN [returned |-> FALSE, err |-> NoError]
  ELSE [returned |-> TRUE, err |-> err]

\* mutant: the loop of updateTable has no attempt ceiling
updateTableLoop_NoCeiling(i) == TRUE

\* mutant: the loop of updateTable runs while i <= MultiIndexUpdateRetryAttempts
updateTableLoop_OneMore(i) == i <= MultiIndexUpdateRetryAttempts

\* the loop condition of updateTable: i < MultiIndexUpdateRetryAttempts; when
\* it fails updateTable returns ErrRequestWithMaxRetry
updateTableLoop(i) == i < MultiIndexUpdateRetryAttempts

(***************************************************************************)
(* The remote service (DynamoDB), addressed by table name.  A table is     *)
(* absent (Nil) or has a description and a TTL description.                *)
(***************************************************************************)
TimeToLiveStatusOf(enabled) == IF enabled THEN "ENABLED" ELSE "DISABLED"

\* the table the service holds after it accepted CreateTable(input)
ServiceCreateTable(input) ==
  Ptr([Table |->
         [AttributeDefinitions |-> input.AttributeDefinitions,
          KeySchema |-> input.KeySchema,
          ProvisionedThroughput |-> input.ProvisionedThroughput,
          GlobalSecondaryIndexes |-> input.GlobalSecondaryIndexes,
          LocalSecondaryIndexes |-> <<>>],
       TTL |-> Ptr([AttributeName |-> "", TimeToLiveStatus |-> "DISABLED"])])

\* the index list after one GlobalSecondaryIndexUpdate
ServiceUpdateIndex(gsis, u) ==
  IF u.Kind = "Create"
  THEN Append(gsis, [IndexName |-> u.IndexName,
                     KeySchema |-> u.KeySchema,
                     Projection |-> Deref(u.Projection),
                     ProvisionedThroughput |-> u.ProvisionedThroughput])
  ELSE [k \in DOMAIN gsis |->
          IF gsis[k].IndexName = u.IndexName
          THEN [gsis[k] EXCEPT !.ProvisionedThroughput = u.ProvisionedThroughput]
          ELSE gsis[k]]

RECURSIVE ServiceUpdateIndexes(_, _, _)
ServiceUpdateIndexes(gsis, updates, k) ==
  IF k > Len(updates) THEN gsis
  ELSE ServiceUpdateIndexes(ServiceUpdateIndex(gsis, updates[k]), updates, k + 1)

\* the table after the service accepted UpdateTable(input)
ServiceUpdateTable(live, input) ==
  Ptr([Deref(live) EXCEPT
         !.Table.ProvisionedThroughput =
            IF input.ProvisionedThroughput # Nil
            THEN Deref(input.ProvisionedThroughput) ELSE @,
         !.Table.GlobalSecondaryIndexes =
            ServiceUpdateIndexes(@, input.GlobalSecondaryIndexUpdates, 1)])

\* the table after the service accepted UpdateTimeToLive(input)
ServiceUpdateTimeToLive(live, input) ==
  Ptr([Deref(live) EXCEPT
         !.TTL = Ptr([AttributeName |-> input.TimeToLiveSpecification.AttributeName,
                      TimeToLiveStatus |->
                        TimeToLiveStatusOf(input.TimeToLiveSpecification.Enabled)])])

(***************************************************************************)
(* Configurations (tables.yaml as loaded into []TableInfo) and the live    *)
(* tables they are validated against.                                      *)
(***************************************************************************)
TableNames == <<"orders", "users", "carts", "items">>
Envs == {"", "sandbox"}

PlainTable(name) ==
  [Title |-> "", TableName |-> name, PrimaryKey |-> "id", SortKey |-> "",
   SortKeyType |-> "", ReadThroughput |-> 5, WriteThroughput |-> 5,
   Indexes |-> <<>>, TTL |-> Nil]

RichTable(name) ==
  [Title |-> "shop", TableName |-> name, PrimaryKey |-> "id", SortKey |-> "created",
   SortKeyType |-> "N", ReadThroughput |-> 5, WriteThroughput |-> 5,
   Indexes |-> <<[IndexName |-> "by_email", PrimaryKey |-> "email",
                  PrimaryKeyType |-> "S", SortKey |-> "created", SortKeyType |-> "N",
                  ReadThroughput |-> 2, WriteThroughput |-> 2,
                  ProjectedFields |-> <<"status", "name">>]>>,
   TTL |-> Ptr([AttributeName |-> "expires", Enabled |-> TRUE])]

\* a table with two indexes
WideTable(name) ==
  [RichTable(name) EXCEPT
     !.Indexes = @ \o <<[IndexName |-> "by_status", PrimaryKey |-> "status",
                         PrimaryKeyType |-> "S", SortKey |-> "", SortKeyType |-> "",
                         ReadThroughput |-> 3, WriteThroughput |-> 3,
                         ProjectedFields |-> <<"name">>]>>]

TableOfShape(shape, name) ==
  IF shape = "plain" THEN PlainTable(name)
  ELSE IF shape = "rich" THEN RichTable(name)
  ELSE WideTable(name)

\* the flag that changes the k-th desired index of the live description
IndexFlag(base, k) ==
  IF k = 1 THEN base
  ELSE [idxMissing |-> "idxMissing2", idxThroughput |-> "idxThroughput2",
        idxKey |-> "idxKey2", idxProj |-> "idxProj2"][base]

Reverse(xs) == [k \in 1..Len(xs) |-> xs[Len(xs) + 1 - k]]

\* a live table description: the desired one, changed as the flags say
LiveDescription(tbl, env, flags) ==
  LET input == CreateTableInput(tbl, env)
      lowPt == [ReadCapacityUnits |-> 1, WriteCapacityUnits |-> 1]
      attrsT == IF "attrType" \in flags
                THEN [input.AttributeDefinitions EXCEPT ![1].AttributeType = "B"]
                ELSE input.AttributeDefinitions
      attrsD == IF "attrDrop" \in flags /\ Len(attrsT) > 1
                THEN SubSeq(attrsT, 1, Len(attrsT) - 1)
                ELSE attrsT
      attrsR == IF "attrRotate" \in flags
                THEN Tail(attrsD) \o <<Head(attrsD)>>
                ELSE attrsD
      attrs0 == IF "attrOrder" \in flags THEN Reverse(attrsR) ELSE attrsR
      attrs == IF "attrMember" \in flags
               THEN Append(attrs0, [AttributeName |-> "owner", AttributeType |-> "S"])
               ELSE attrs0
      keys == IF "keySchema" \in flags
              THEN [input.KeySchema EXCEPT ![1].AttributeName = "owner"]
              ELSE input.KeySchema
      LiveIndex(g, k) ==
        [IndexName |-> g.IndexName,
         KeySchema |-> IF IndexFlag("idxKey", k) \in flags
                       THEN [g.KeySchema EXCEPT ![1].AttributeName = "owner"]
                       ELSE g.KeySchema,
         Projection |->
           [NonKeyAttributes |-> IF "projOrder" \in flags
                                 THEN Reverse(g.Projection.NonKeyAttributes)
                                 ELSE g.Projection.NonKeyAttributes,
            ProjectionType |-> IF IndexFlag("idxProj", k) \in flags
                               THEN "ALL" ELSE g.Projection.ProjectionType],
         ProvisionedThroughput |-> IF IndexFlag("idxThroughput", k) \in flags
                                   THEN lowPt ELSE g.ProvisionedThroughput]
      numbered == [k \in DOMAIN input.GlobalSecondaryIndexes |->
                     [k |-> k, g |-> input.GlobalSecondaryIndexes[k]]]
      kept == SelectSeq(numbered, LAMBDA p : IndexFlag("idxMissing", p.k) \notin flags)
      gsis0 == [j \in DOMAIN kept |-> LiveIndex(kept[j].g, kept[j].k)]
      extra == [IndexName |-> "by_owner",
                KeySchema |-> <<[AttributeName |-> "owner", KeyType |-> "HASH"]>>,
                Projection |-> [NonKeyAttributes |-> <<"id">>,
                                ProjectionType |-> "INCLUDE"],
                ProvisionedThroughput |-> lowPt]
  IN [AttributeDefinitions |-> attrs,
      KeySchema |-> keys,
      ProvisionedThroughput |->
        IF "throughput" \in flags THEN lowPt
        ELSE IF "throughputWrite" \in flags
        THEN [input.ProvisionedThroughput EXCEPT !.WriteCapacityUnits = 1]
        ELSE input.ProvisionedThroughput,
      GlobalSecondaryIndexes |-> IF "idxExtra" \in flags
                                 THEN <<extra>> \o gsis0 ELSE gsis0,
      LocalSecondaryIndexes |->
        IF "lsi" \in flags
        THEN <<[IndexName |-> "local",
                KeySchema |-> <<[AttributeName |-> "id", KeyType |-> "HASH"]>>,
                Projection |-> [NonKeyAttributes |-> <<"id">>,
                                ProjectionType |-> "INCLUDE"]]>>
        ELSE <<>>]

\* the TTL description the service reports: none at all, the declared one,
\* or the declared attribute with the other status
LiveTTL(tbl, ttl) ==
  IF tbl.TTL = Nil THEN Ptr([AttributeName |-> "", TimeToLiveStatus |-> "DISABLED"])
  ELSE IF ttl = "none" THEN Nil
  ELSE IF ttl = "match"
  THEN Ptr([AttributeName |-> Deref(tbl.TTL).AttributeName,
            TimeToLiveStatus |-> TimeToLiveStatusOf(Deref(tbl.TTL).Enabled)])
  ELSE Ptr([AttributeName |-> Deref(tbl.TTL).AttributeName,
            TimeToLiveStatus |-> TimeToLiveStatusOf(~Deref(tbl.TTL).Enabled)])

LiveTable(tbl, env, sc) ==
  IF sc.absent THEN Nil
  ELSE Ptr([Table |-> LiveDescription(tbl, env, sc.flags), TTL |-> LiveTTL(tbl, sc.ttl)])

Scenario(shape, absent, flags, ttl) ==
  [shape |-> shape, absent |-> absent, flags |-> flags, ttl |-> ttl]

\* the table shapes and live states of the concurrent runs
Scenarios ==
  { Scenario("plain", TRUE, {}, "match"),
    Scenario("plain", FALSE, {}, "match"),
    Scenario("plain", FALSE, {"throughput"}, "match"),
    Scenario("plain", FALSE, {"keySchema", "throughput"}, "match"),
    Scenario("rich", TRUE, {}, "match"),
    Scenario("rich", FALSE, {"attrOrder", "projOrder"}, "match"),
    Scenario("rich", FALSE, {"throughput", "idxMissing"}, "differ"),
    Scenario("rich", FALSE, {}, "none") }

(***************************************************************************)
(* State.                                                                  *)
(***************************************************************************)
VARIABLES
  tables,      \* c.Tables
  env,         \* c.env
  remote,      \* the service: table name -> Nil or [Table, TTL]
  svc,         \* failures the service may still answer with: [busy, faults, throttle]
  calls,       \* per table of c.Tables, the remote calls issued for it so far
  pc,          \* where the caller of Validate and Migrate is
  spawned,     \* loop index of the spawning loop of Validate / Migrate
  wg,          \* the sync.WaitGroup counter of the running phase
  vpc,         \* per table, where its Validate goroutine is
  vlocal,      \* per table, the locals of compare: result, diff, canMigrate
  resultChan,  \* the buffered channel of Validate
  sentBy,      \* per element ever sent on resultChan, the table it is for
  res,         \* the list Validate returned
  verr,        \* the error Validate returned
  mpc,         \* per result, where its Migrate goroutine is
  mlocal,      \* per result, the locals of migrate: update index k, loop variable i, errs
  ms           \* the list Migrate builds and returns

vars == <<tables, env, remote, svc, calls, pc, spawned, wg, vpc, vlocal,
          resultChan, sentBy, res, verr, mpc, mlocal, ms>>

Slots == DOMAIN tables

TableAddress(t) == withPrefix(env, tables[t].Title, tables[t].TableName)

NoLocals ==
  [result |-> EmptyValidationResult, diff |-> <<>>, canMigrate |-> TRUE, desc |-> Nil]
NoMigrateLocals == [k |-> 0, i |-> 0, errs |-> <<>>]

\* both codes the service throttles a mutating call with
ThrottleCodes == {ErrCodeResourceInUseException, ErrCodeLimitExceededException}

\* a controller for n tables drawn from the scenarios scs, against a service
\* that may fail as budget says
InitWith(n, scs, budget) ==
  /\ env \in Envs
  /\ \E sc \in [1..n -> scs] :
       /\ tables = [t \in 1..n |-> TableOfShape(sc[t].shape, TableNames[t])]
       /\ remote = [a \in {withPrefix(env, tables[t].Title, tables[t].TableName) :
                              t \in 1..n} |->
                     LET t == CHOOSE u \in 1..n :
                                withPrefix(env, tables[u].Title, tables[u].TableName) = a
                     IN LiveTable(tables[t], env, sc[t])]
  /\ svc \in budget
  /\ calls = [t \in 1..n |-> <<>>]
  /\ pc = "Validate"
  /\ spawned = 0
  /\ wg = 0
  /\ vpc = [t \in 1..n |-> "idle"]
  /\ vlocal = [t \in 1..n |-> NoLocals]
  /\ resultChan = <<>>
  /\ sentBy = <<>>
  /\ res = <<>>
  /\ verr = NoError
  /\ mpc = <<>>
  /\ mlocal = <<>>
  /\ ms = <<>>

Init ==
  InitWith(NumTables, Scenarios,
           {[busy |-> MaxBusy, faults |-> MaxFaults, throttle |-> ThrottleCodes]})

(***************************************************************************)
(* The answers of the service.                                             *)
(***************************************************************************)
Call(op, name, arg, err) == [op |-> op, name |-> name, arg |-> arg, err |-> err]

LiveAt(name) == IF name \in DOMAIN remote THEN remote[name] ELSE Nil

\* errors of a describe call that are not about the table
FetchFaults ==
  IF svc.faults > 0
  THEN {AwsError("InternalServerError"), PlainError("RequestError")}
  ELSE {}

\* errors of a mutating call: throttling and other failures
MutationFaults ==
  (IF svc.busy > 0 THEN {AwsError(c) : c \in svc.throttle} ELSE {}) \cup
  (IF svc.faults > 0
   THEN {AwsError("ValidationException"), PlainError("RequestError")}
   ELSE {})

IsThrottle(err) ==
  err.aws /\ err.code \in {ErrCodeResourceInUseException, ErrCodeLimitExceededException}

\* what the service answers when it injects no failure
DescribeNatural(name) ==
  IF LiveAt(name) # Nil THEN NoError ELSE AwsError(ErrCodeResourceNotFoundException)
\* CreateTable is accepted when the name is free
CreateTableNatural(name) ==
  IF LiveAt(name) = Nil THEN NoError ELSE AwsError(ErrCodeResourceInUseException)
\* UpdateTable and UpdateTimeToLive are accepted when the table exists
UpdateNatural(name) ==
  IF LiveAt(name) # Nil THEN NoError ELSE AwsError(ErrCodeResourceNotFoundException)

\* the budget left after the service answered err instead of natural
Spend(err, natural) ==
  IF err = natural THEN svc
  ELSE IF IsThrottle(err) THEN [svc EXCEPT !.busy = @ - 1]
  ELSE [svc EXCEPT !.faults = @ - 1]

(***************************************************************************)
(* Validate: one goroutine per table, a WaitGroup and a channel buffered   *)
(* for len(c.Tables) results.                                              *)
(***************************************************************************)
\* for _, tbl := range c.Tables { wg.Add(1); go func(...) }
ValidateSpawn ==
  /\ pc = "Validate"
  /\ spawned < Len(tables)
  /\ spawned' = spawned + 1
  /\ wg' = wg + 1
  /\ vpc' = [vpc EXCEPT ![spawned + 1] = "describeTable"]
  /\ UNCHANGED <<tables, env, remote, svc, calls, pc, vlocal, resultChan, sentBy,
                 res, verr, mpc, mlocal, ms>>

\* compare up to its second remote call: c.describeTable and what follows it
DescribeTable(t) ==
  /\ vpc[t] = "describeTable"
  /\ LET tbl == tables[t]
         name == withPrefix(env, tbl.Title, tbl.TableName)
     IN \E err \in {DescribeNatural(name)} \cup FetchFaults :
          /\ svc' = Spend(err, DescribeNatural(name))
          /\ calls' = [calls EXCEPT ![t] = Append(@, Call("DescribeTable", name, <<>>, err))]
          /\ IF err # NoError
             THEN /\ vlocal' = [vlocal EXCEPT ![t] =
                       [NoLocals EXCEPT !.result =
                          validateResult(compareDescribeFailed(tbl, env, err))]]
                  /\ vpc' = [vpc EXCEPT ![t] = "send"]
             ELSE LET loc == compareTable(tbl, env, Deref(LiveAt(name)).Table)
                  IN IF tbl.TTL # Nil
                     THEN /\ vlocal' = [vlocal EXCEPT ![t] = loc]
                          /\ vpc' = [vpc EXCEPT ![t] = "describeTTL"]
                     ELSE /\ vlocal' = [vlocal EXCEPT ![t] =
                               [loc EXCEPT !.result = validateResult(compareFinish(loc))]]
                          /\ vpc' = [vpc EXCEPT ![t] = "send"]
  /\ UNCHANGED <<tables, env, remote, pc, spawned, wg, resultChan, sentBy,
                 res, verr, mpc, mlocal, ms>>

\* mutant: a missing TTL configuration is set at once instead of being queued
DescribeTTL_Apply(t) ==
  /\ vpc[t] = "describeTTL"
  /\ LET tbl == tables[t]
         name == withPrefix(env, tbl.Title, tbl.TableName)
     IN \E err \in {DescribeNatural(name)} \cup FetchFaults :
          LET ttl == IF err = NoError THEN Deref(LiveAt(name)).TTL ELSE Nil
              cmp == compareTTL(tbl, env, vlocal[t], ttl, err)
              missing == err = NoError /\ ttl = Nil
              input == Deref(NewUpdateTimeToLiveInput(tbl, env, tbl.TTL))
          IN /\ svc' = Spend(err, DescribeNatural(name))
             /\ calls' = [calls EXCEPT ![t] =
                   Append(@, Call("DescribeTimeToLive", name, <<>>, err)) \o
                   (IF missing
                    THEN <<Call("UpdateTimeToLive", name, <<input>>, NoError)>>
                    ELSE <<>>)]
             /\ remote' = IF missing
                           THEN [remote EXCEPT ![name] =
                                   ServiceUpdateTimeToLive(LiveAt(name), input)]
                           ELSE remote
             /\ vlocal' = [vlocal EXCEPT ![t].result = validateResult(cmp)]
             /\ vpc' = [vpc EXCEPT ![t] = "send"]
  /\ UNCHANGED <<tables, env, pc, spawned, wg, resultChan, sentBy,
                 res, verr, mpc, mlocal, ms>>

\* the TTL part of compare: c.describeTTL and what follows it
DescribeTTL(t) ==
  /\ vpc[t] = "describeTTL"
  /\ LET tbl == tables[t]
         name == withPrefix(env, tbl.Title, tbl.TableName)
     IN \E err \in {DescribeNatural(name)} \cup FetchFaults :
          /\ svc' = Spend(err, DescribeNatural(name))
          /\ calls' = [calls EXCEPT ![t] = Append(@, Call("DescribeTimeToLive", name, <<>>, err))]
          /\ LET ttl == IF err = NoError THEN Deref(LiveAt(name)).TTL ELSE Nil
                 cmp == compareTTL(tbl, env, vlocal[t], ttl, err)
             IN vlocal' = [vlocal EXCEPT ![t].result = validateResult(cmp)]
          /\ vpc' = [vpc EXCEPT ![t] = "send"]
  /\ UNCHANGED <<tables, env, remote, pc, spawned, wg, resultChan, sentBy,
                 res, verr, mpc, mlocal, ms>>

\* mutant: the channel is buffered for one result less
ResultChanCap_OneShort == Len(tables) - 1

\* capacity of resultChan: make(chan *ValidationResult, len(c.Tables))
ResultChanCap == Len(tables)

\* resultChan <- result, then the deferred wg.Done()
SendResult(t) ==
  /\ vpc[t] = "send"
  /\ Len(resultChan) < ResultChanCap
  /\ resultChan' = Append(resultChan, vlocal[t].result)
  /\ sentBy' = Append(sentBy, t)
  /\ wg' = wg - 1
  /\ vpc' = [vpc EXCEPT ![t] = "done"]
  /\ UNCHANGED <<tables, env, remote, svc, calls, pc, spawned, vlocal,
                 res, verr, mpc, mlocal, ms>>

\* wg.Wait() returns; close(resultChan); the range loop; the verdict
ValidateReturn ==
  /\ pc = "Validate"
  /\ spawned = Len(tables)
  /\ wg = 0
  /\ res' = resultChan
  /\ verr' = validateError(resultChan)
  /\ resultChan' = <<>>
  /\ pc' = "validated"
  /\ UNCHANGED <<tables, env, remote, svc, calls, spawned, wg, vpc, vlocal,
                 sentBy, mpc, mlocal, ms>>

(***************************************************************************)
(* Migrate: one goroutine per result with a non-empty diff, each writing   *)
(* its own slot of ms.                                                     *)
(***************************************************************************)
\* ms := make([]*MigrationResult, len(results)), called with Validate's results
MigrateCall ==
  /\ pc = "validated"
  /\ ms' = [i \in 1..Len(res) |-> Nil]
  /\ mpc' = [i \in 1..Len(res) |-> "idle"]
  /\ mlocal' = [i \in 1..Len(res) |-> NoMigrateLocals]
  /\ spawned' = 0
  /\ wg' = 0
  /\ pc' = "Migrate"
  /\ UNCHANGED <<tables, env, remote, svc, calls, vpc, vlocal, resultChan, sentBy,
                 res, verr>>

\* one iteration of: for i, res := range results { if len(res.Diff) > 0 { wg.Add(1); go ... } }
MigrateSpawn ==
  /\ pc = "Migrate"
  /\ spawned < Len(res)
  /\ spawned' = spawned + 1
  /\ IF Len(res[spawned + 1].Diff) > 0
     THEN /\ wg' = wg + 1
          /\ mpc' = [mpc EXCEPT ![spawned + 1] = "start"]
     ELSE UNCHANGED <<wg, mpc>>
  /\ UNCHANGED <<tables, env, remote, svc, calls, pc, vpc, vlocal, resultChan, sentBy,
                 res, verr, mlocal, ms>>

\* mutant: the goroutine reads the loop variable of Migrate instead of its own
\* copy of i when it writes its slot
Advance_SharedIndex(i, errs, s) ==
  /\ mpc' = [mpc EXCEPT ![i] = StagePc(s)]
  /\ mlocal' = [mlocal EXCEPT ![i] = [k |-> IF s > 2 THEN s - 2 ELSE 0,
                                       i |-> 0, errs |-> errs]]
  /\ ms' = [ms EXCEPT ![spawned] = Ptr([TableInput |-> res[spawned].TableInput,
                                         Errors |-> IF s = 0 THEN errs ELSE <<>>])]
  /\ wg' = IF s = 0 THEN wg - 1 ELSE wg

\* the goroutine of result i goes on with stage s of migrate, or, when s = 0,
\* migrate returns errs, ms[i].Errors is set and wg.Done() runs
Advance(i, errs, s) ==
  /\ mpc' = [mpc EXCEPT ![i] = StagePc(s)]
  /\ mlocal' = [mlocal EXCEPT ![i] = [k |-> IF s > 2 THEN s - 2 ELSE 0,
                                       i |-> 0, errs |-> errs]]
  /\ ms' = [ms EXCEPT ![i] = Ptr([TableInput |-> res[i].TableInput,
                                   Errors |-> IF s = 0 THEN errs ELSE <<>>])]
  /\ wg' = IF s = 0 THEN wg - 1 ELSE wg

\* ms[i] = &MigrationResult{...}; the early returns of migrate
MigrateStart(i) ==
  /\ mpc[i] = "start"
  /\ IF migrateRefused(res[i])
     THEN Advance(i, <<ErrInvalidMigrationInput>>, 0)
     ELSE Advance(i, <<>>, FirstStage(res[i], 1))
  /\ UNCHANGED <<tables, env, remote, svc, calls, pc, spawned, vpc, vlocal,
                 resultChan, sentBy, res, verr>>

SetLive(name, live) ==
  [a \in DOMAIN remote \cup {name} |-> IF a = name THEN live ELSE remote[a]]

\* c.createTable up to and including its CreateTable call
CreateTableCall(i) ==
  /\ mpc[i] = "createTable"
  /\ LET r == res[i]
         input == CreateTableInput(r.TableInput, env)
         name == input.TableName
     IN \E err \in {CreateTableNatural(name)} \cup MutationFaults :
          /\ svc' = Spend(err, CreateTableNatural(name))
          /\ calls' = [calls EXCEPT ![sentBy[i]] =
                         Append(@, Call("CreateTable", name, <<input>>, err))]
          /\ IF err = NoError
             THEN /\ remote' = SetLive(name, ServiceCreateTable(input))
                  /\ IF r.TableInput.TTL # Nil
                     THEN /\ mpc' = [mpc EXCEPT ![i] = "createTableTTL"]
                          /\ mlocal' = [mlocal EXCEPT ![i].i = 0]
                          /\ UNCHANGED <<ms, wg>>
                     ELSE Advance(i, mlocal[i].errs, FirstStage(r, 2))
             ELSE /\ remote' = remote
                  /\ Advance(i, Append(mlocal[i].errs, err), FirstStage(r, 2))
  /\ UNCHANGED <<tables, env, pc, spawned, vpc, vlocal, resultChan, sentBy, res, verr>>

\* one iteration of the loop of c.updateTTL, called by createTable after the
\* create or by migrate for r.UpdateTTLInput: the call, its answer and the
\* sleep before the next iteration; or, when the loop condition fails after
\* the last sleep, the return of ErrRequestWithMaxRetry
UpdateTTLCall(i) ==
  /\ mpc[i] \in {"createTableTTL", "updateTTL"}
  /\ LET r == res[i]
         input == IF mpc[i] = "createTableTTL"
                  THEN Deref(NewUpdateTimeToLiveInput(r.TableInput, env, r.TableInput.TTL))
                  ELSE Deref(r.UpdateTTLInput)
         name == input.TableName
         next == IF mpc[i] = "createTableTTL" THEN 2 ELSE 3
     IN IF ~updateTTLLoop(mlocal[i].i)
        THEN /\ Advance(i, appendError(mlocal[i].errs, ErrRequestWithMaxRetry),
                        FirstStage(r, next))
             /\ UNCHANGED <<svc, calls, remote>>
        ELSE
        \E err \in {UpdateNatural(name)} \cup MutationFaults :
          LET step == updateTTLStep(mlocal[i].i, err)
          IN /\ svc' = Spend(err, UpdateNatural(name))
             /\ calls' = [calls EXCEPT ![sentBy[i]] =
                            Append(@, Call("UpdateTimeToLive", name, <<input>>, err))]
             /\ remote' = IF err = NoError
                           THEN SetLive(name, ServiceUpdateTimeToLive(LiveAt(name), input))
                           ELSE remote
             /\ IF step.returned
                THEN Advance(i, appendError(mlocal[i].errs, step.err), FirstStage(r, next))
                ELSE /\ mlocal' = [mlocal EXCEPT ![i].i = @ + 1]
                     /\ UNCHANGED <<mpc, ms, wg>>
  /\ UNCHANGED <<tables, env, pc, spawned, vpc, vlocal, resultChan, sentBy, res, verr>>

\* mutant: the queue of update requests is walked from its end
queuedUpdate_Reversed(r, k) == r.UpdateTableInput[Len(r.UpdateTableInput) + 1 - k]

\* the k-th request of: for _, input := range r.UpdateTableInput
queuedUpdate(r, k) == r.UpdateTableInput[k]

\* one iteration of the loop of c.updateTable for r.UpdateTableInput[k], or
\* the return of ErrRequestWithMaxRetry when the loop condition fails
UpdateTableCall(i) ==
  /\ mpc[i] = "updateTable"
  /\ LET r == res[i]
         k == mlocal[i].k
         input == queuedUpdate(r, k)
         name == input.TableName
     IN IF ~updateTableLoop(mlocal[i].i)
        THEN /\ Advance(i, appendError(mlocal[i].errs, ErrRequestWithMaxRetry),
                        FirstStage(r, k + 3))
             /\ UNCHANGED <<svc, calls, remote>>
        ELSE
        \E err \in {UpdateNatural(name)} \cup MutationFaults :
          LET step == updateTableStep(mlocal[i].i, err)
          IN /\ svc' = Spend(err, UpdateNatural(name))
             /\ calls' = [calls EXCEPT ![sentBy[i]] =
                            Append(@, Call("UpdateTable", name, <<input>>, err))]
             /\ remote' = IF err = NoError
                           THEN SetLive(name, ServiceUpdateTable(LiveAt(name), input))
                           ELSE remote
             /\ IF step.returned
                THEN Advance(i, appendError(mlocal[i].errs, step.err), FirstStage(r, k + 3))
                ELSE /\ mlocal' = [mlocal EXCEPT ![i].i = @ + 1]
                     /\ UNCHANGED <<mpc, ms, wg>>
  /\ UNCHANGED <<tables, env, pc, spawned, vpc, vlocal, resultChan, sentBy, res, verr>>

\* wg.Wait() returns; return ms
MigrateReturn ==
  /\ pc = "Migrate"
  /\ spawned = Len(res)
  /\ wg = 0
  /\ pc' = "migrated"
  /\ UNCHANGED <<tables, env, remote, svc, calls, spawned, wg, vpc, vlocal,
                 resultChan, sentBy, res, verr, mpc, mlocal, ms>>

ValidateNext ==
  \/ ValidateSpawn
  \/ \E t \in Slots : DescribeTable(t)
  \/ \E t \in Slots : DescribeTTL(t)
  \/ \E t \in Slots : SendResult(t)
  \/ ValidateReturn

MigrateNext ==
  \/ MigrateCall
  \/ MigrateSpawn
  \/ \E i \in DOMAIN mpc : MigrateStart(i)
  \/ \E i \in DOMAIN mpc : CreateTableCall(i)
  \/ \E i \in DOMAIN mpc : UpdateTTLCall(i)
  \/ \E i \in DOMAIN mpc : UpdateTableCall(i)
  \/ MigrateReturn

Next == ValidateNext \/ MigrateNext

Spec == Init /\ [][Next]_vars

\* one table, each with a single kind of pending action, against a service
\* that can throttle with one code for as long as the executors retry
RetryScenarios ==
  { Scenario("plain", FALSE, {"throughput"}, "match"),
    Scenario("rich", FALSE, {}, "differ"),
    Scenario("rich", TRUE, {}, "match") }

RetryInit ==
  InitWith(1, RetryScenarios,
           {[busy |-> RetryBusy, faults |-> MaxFaults, throttle |-> {c}] :
              c \in ThrottleCodes})

RetrySpec == RetryInit /\ [][Next]_vars

\* the ways the attribute definitions of a live table differ from the desired ones
AttrFlags == {"attrOrder", "attrRotate", "attrMember", "attrType", "attrDrop"}
\* the ways the indexes and the throughput of a live table differ
IndexFlags == {"idxMissing", "idxThroughput", "idxKey", "idxProj",
               "idxMissing2", "idxThroughput2", "idxKey2", "idxProj2",
               "projOrder", "idxExtra", "throughput", "throughputWrite"}

\* one table with two indexes, live in every combination of attribute
\* differences and in every combination of index differences, or absent
DiffScenarios ==
  {Scenario("wide", FALSE, f, "match") : f \in (SUBSET AttrFlags) \cup (SUBSET IndexFlags)}
  \cup {Scenario("wide", TRUE, {}, "match"), Scenario("wide", FALSE, {}, "differ")}

DiffInit ==
  InitWith(1, DiffScenarios, {[busy |-> 0, faults |-> 0, throttle |-> ThrottleCodes]})

DiffSpec == DiffInit /\ [][Next]_vars

\* the attribute names the keys of the built tables are drawn from, with the
\* type the configuration gives each
BuilderKeys == {"id", "email", "created"}
KeyTypeOf(name) == IF name = "created" THEN "N" ELSE "S"
BuilderIndexNames == <<"by_email", "by_status">>

\* a table with primary key id, the sort key sortKey ("" for none) and one
\* index per pair <<hash key, range key>> of keys
BuiltTable(name, sortKey, keys) ==
  [Title |-> "shop", TableName |-> name, PrimaryKey |-> "id", SortKey |-> sortKey,
   SortKeyType |-> IF sortKey = "" THEN "" ELSE "N",
   ReadThroughput |-> 5, WriteThroughput |-> 5,
   Indexes |-> [k \in DOMAIN keys |->
                  [IndexName |-> BuilderIndexNames[k],
                   PrimaryKey |-> keys[k][1], PrimaryKeyType |-> KeyTypeOf(keys[k][1]),
                   SortKey |-> keys[k][2],
                   SortKeyType |-> IF keys[k][2] = "" THEN "" ELSE KeyTypeOf(keys[k][2]),
                   ReadThroughput |-> 2, WriteThroughput |-> 2,
                   ProjectedFields |-> <<"name">>]],
   TTL |-> Ptr([AttributeName |-> "expires", Enabled |-> TRUE])]

\* every table with a sort key or none and up to two indexes over BuilderKeys
BuiltTables ==
  LET pairs == BuilderKeys \X (BuilderKeys \cup {""})
      keyLists == {<<>>} \cup {<<p>> : p \in pairs} \cup
                  {<<p, q>> : p \in pairs, q \in pairs}
  IN {BuiltTable(TableNames[1], sk, keys) :
        sk \in BuilderKeys \cup {""}, keys \in keyLists}

\* the states of the live table: absent, in sync, or with another throughput;
\* a table whose sort key is its primary key is never live
BuiltLive(tbl) ==
  {Scenario("built", TRUE, {}, "match")} \cup
  (IF tbl.SortKey = tbl.PrimaryKey THEN {}
   ELSE {Scenario("built", FALSE, {}, "match"),
         Scenario("built", FALSE, {"throughput"}, "match")})

\* a controller for one table of BuiltTables, against a service that never fails
BuilderInit ==
  /\ env \in Envs
  /\ tables \in {<<tbl>> : tbl \in BuiltTables}
  /\ \E sc \in BuiltLive(tables[1]) :
       remote = [a \in {withPrefix(env, tables[1].Title, tables[1].TableName)} |->
                  LiveTable(tables[1], env, sc)]
  /\ svc = [busy |-> 0, faults |-> 0, throttle |-> ThrottleCodes]
  /\ calls = <<(<<>>)>>
  /\ pc = "Validate"
  /\ spawned = 0
  /\ wg = 0
  /\ vpc = <<"idle">>
  /\ vlocal = <<NoLocals>>
  /\ resultChan = <<>>
  /\ sentBy = <<>>
  /\ res = <<>>
  /\ verr = NoError
  /\ mpc = <<>>
  /\ mlocal = <<>>
  /\ ms = <<>>

BuilderSpec == BuilderInit /\ [][Next]_vars

\* differences of the table itself: key schema, a live local secondary index,
\* an attribute definition more
TableFlags == {"keySchema", "lsi", "attrMember"}
\* differences found by the later steps of compare
LaterFlags == {"throughput", "idxMissing", "idxKey2", "idxThroughput2", "idxExtra"}

\* one table with two indexes, live in every combination of a difference of
\* the table itself, differences found later and a TTL state, or absent
ClassifyScenarios ==
  {Scenario("wide", FALSE, f \cup g, ttl) :
     f \in SUBSET TableFlags, g \in SUBSET LaterFlags, ttl \in {"match", "differ", "none"}}
  \cup {Scenario("wide", TRUE, {}, "match")}

ClassifyInit ==
  InitWith(1, ClassifyScenarios, {[busy |-> 0, faults |-> 0, throttle |-> ThrottleCodes]})

ClassifySpec == ClassifyInit /\ [][Next]_vars

(***************************************************************************)
(* Vocabulary of the properties.                                           *)
(***************************************************************************)
\* the results published so far: on the channel, then in the returned list
Published == IF pc = "Validate" THEN resultChan ELSE res

ValidateReturned == pc # "Validate"

IsFetch(c) == c.op \in {"DescribeTable", "DescribeTimeToLive"}
IsMutation(c) == ~IsFetch(c)
FetchCalls(t) == SelectSeq(calls[t], IsFetch)
MutationCalls(t) == SelectSeq(calls[t], IsMutation)

NotFound == AwsError(ErrCodeResourceNotFoundException)

\* the fetch for table t that failed, if one did
FailedFetches(t) ==
  {k \in DOMAIN calls[t] :
     /\ IsFetch(calls[t][k])
     /\ calls[t][k].err # NoError
     /\ ~(calls[t][k].op = "DescribeTable" /\ calls[t][k].err = NotFound)}

\* C1: the summary error of Validate is ErrBackwardIncompatible if some result
\* has CanMigrate = false, else ErrBackwardCompatible if some result has a
\* non-empty diff, else nil
C1_VerdictPriority ==
  ValidateReturned =>
    /\ (\E k \in DOMAIN res : res[k].CanMigrate = FALSE)
          => verr = ErrBackwardIncompatible
    /\ ( /\ \A k \in DOMAIN res : res[k].CanMigrate = TRUE
         /\ \E k \in DOMAIN res : res[k].Diff # <<>> )
          => verr = ErrBackwardCompatible
    /\ ( /\ \A k \in DOMAIN res : res[k].CanMigrate = TRUE
         /\ \A k \in DOMAIN res : res[k].Diff = <<>> )
          => verr = NoError

\* tables disagree: one result is not migratable, another is migratable with a diff
C1_Witness ==
  /\ ValidateReturned
  /\ \E j, k \in DOMAIN res :
       /\ res[j].CanMigrate = FALSE
       /\ res[k].CanMigrate = TRUE /\ res[k].Diff # <<>>
  /\ verr = ErrBackwardIncompatible

\* C2: a table whose describe-table answered ResourceNotFound gets a result
\* with the CreateTable input of the full desired state, CanMigrate = true,
\* diff "missing table: <name>", no UpdateTable and no UpdateTTL input, and
\* Validate makes no other remote call for it
C2_MissingTable ==
  \A i \in DOMAIN Published :
    LET t == sentBy[i]
        r == Published[i]
    IN calls[t][1].err = NotFound =>
         /\ r.CreateTableInput = Ptr(CreateTableInput(tables[t], env))
         /\ Deref(r.CreateTableInput).GlobalSecondaryIndexes
               = [k \in DOMAIN tables[t].Indexes |->
                    NewGlobalSecondaryIndex(tables[t].Indexes[k])]
         /\ r.CanMigrate = TRUE
         /\ r.Diff = <<"missing table: ", tables[t].TableName>>
         /\ r.UpdateTableInput = <<>>
         /\ r.UpdateTTLInput = Nil
         /\ r.Error = NoError
         /\ Len(FetchCalls(t)) = 1

\* a missing table that declares TTL and an index has published its result
C2_Witness ==
  \E i \in DOMAIN Published :
    /\ calls[sentBy[i]][1].err = NotFound
    /\ tables[sentBy[i]].TTL # Nil
    /\ tables[sentBy[i]].Indexes # <<>>
    /\ Published[i].CreateTableInput # Nil

\* C3: a table one of whose fetches failed (describe-table with another error
\* than not-found, or describe-TTL) gets a result that carries the error and
\* CanMigrate = false; every other table gets exactly the result of comparing
\* it with its live state, whatever happened to the fetches of the others
C3_FetchErrorIsolated ==
  pc \in {"Validate", "validated"} =>
    \A i \in DOMAIN Published :
      LET t == sentBy[i]
          r == Published[i]
      IN IF FailedFetches(t) # {}
         THEN /\ \E k \in FailedFetches(t) : r.Error = calls[t][k].err
              /\ r.CanMigrate = FALSE
         ELSE /\ r = Deref(compare(tables[t], env, LiveAt(TableAddress(t))).result)
              /\ r.Error = NoError

\* describe-TTL failed for one table, and another table has its diff and actions
C3_Witness ==
  /\ pc = "validated"
  /\ \E i, j \in DOMAIN res :
       /\ res[i].Error # NoError
       /\ \E k \in FailedFetches(sentBy[i]) :
            calls[sentBy[i]][k].op = "DescribeTimeToLive"
       /\ FailedFetches(sentBy[j]) = {}
       /\ res[j].Diff # <<>>
       /\ res[j].UpdateTableInput # <<>>

\* what is left to do of a call of Validate: it decreases with every step
ValidateMeasure ==
  (Len(tables) - spawned)
  + Cardinality({t \in Slots : vpc[t] \in {"idle", "describeTable"}})
  + Cardinality({t \in Slots : vpc[t] \in {"idle", "describeTable", "describeTTL"}})
  + Cardinality({t \in Slots : vpc[t] # "done"})
  + (IF pc = "Validate" THEN 1 ELSE 0)

\* C4: Validate terminates and returns exactly one result per configured
\* table: every step of Validate brings it nearer to its end, a goroutine
\* about to publish its result always finds room in the channel, wg.Wait()
\* can return once every goroutine has finished, and Validate returns only
\* then, with one result per table
C4_ValidateTerminates ==
  /\ [][pc = "Validate" => ValidateMeasure' < ValidateMeasure]_vars
  /\ [](\A t \in Slots : vpc[t] = "send" => Len(resultChan) < ResultChanCap)
  /\ []((pc = "Validate" /\ \A t \in Slots : vpc[t] = "done")
          => (spawned = Len(tables) /\ wg = 0))
  /\ [](ValidateReturned =>
          /\ Len(res) = Len(tables)
          /\ \A t \in Slots :
               /\ vpc[t] = "done"
               /\ Cardinality({i \in DOMAIN sentBy : sentBy[i] = t}) = 1)

\* Validate returned the results in another order than the tables were started
C4_Witness ==
  /\ ValidateReturned
  /\ Len(res) = Len(tables)
  /\ sentBy[1] # 1

\* C5 as claimed: Migrate returns a MigrationResult for every ValidationResult
\* it was given
C5_FullResultList ==
  pc = "migrated" =>
    \A i \in DOMAIN res :
      /\ ms[i] # Nil
      /\ Deref(ms[i]).TableInput = res[i].TableInput

\* C6 as claimed: every result Validate returns carries the TableInfo of the
\* table that produced it
C6_ResultCarriesTable ==
  ValidateReturned =>
    \A i \in DOMAIN res : res[i].TableInput = tables[sentBy[i]]

\* C7: a result with a non-empty diff that carries an error or has
\* CanMigrate = false gets exactly the one error ErrInvalidMigrationInput, and
\* no create-table, update-table or update-TTL call is made for its table
C7_RefusedInput ==
  \A i \in DOMAIN mpc :
    (res[i].Diff # <<>> /\ (res[i].Error # NoError \/ res[i].CanMigrate = FALSE)) =>
       /\ MutationCalls(sentBy[i]) = <<>>
       /\ mpc[i] \in {"idle", "start", "done"}
       /\ mpc[i] = "done" =>
            ms[i] = Ptr([TableInput |-> res[i].TableInput,
                         Errors |-> <<ErrInvalidMigrationInput>>])

\* a result that is not migratable and has an update queued was refused
C7_Witness ==
  \E i \in DOMAIN mpc :
    /\ mpc[i] = "done"
    /\ res[i].CanMigrate = FALSE
    /\ res[i].Diff # <<>>
    /\ res[i].UpdateTableInput # <<>>
    /\ Deref(ms[i]).Errors = <<ErrInvalidMigrationInput>>

(***************************************************************************)
(* The mutating calls of one table, read as the actions of migrate.        *)
(* Action 1 is the create call, 2 the TTL update inside createTable, 3 the *)
(* UpdateTTL action, 3 + k the k-th queued update request.                 *)
(***************************************************************************)
CallAction(r, c) ==
  IF c.op = "CreateTable" THEN 1
  ELSE IF c.op = "UpdateTimeToLive"
  THEN (IF r.CreateTableInput # Nil THEN 2 ELSE 3)
  ELSE IF \E k \in DOMAIN r.UpdateTableInput : c.arg = <<r.UpdateTableInput[k]>>
  THEN 3 + (CHOOSE k \in DOMAIN r.UpdateTableInput : c.arg = <<r.UpdateTableInput[k]>>)
  ELSE 0

\* the request an action of r sends
ActionRequest(r, s) ==
  IF s = 1 THEN <<CreateTableInput(r.TableInput, env)>>
  ELSE IF s = 2 THEN NewUpdateTimeToLiveInput(r.TableInput, env, r.TableInput.TTL)
  ELSE IF s = 3 THEN r.UpdateTTLInput
  ELSE <<r.UpdateTableInput[s - 3]>>

\* the actions migrate has to run for r, given the calls M made so far
ActionDue(r, M, s) ==
  IF s = 1 THEN r.CreateTableInput # Nil
  ELSE IF s = 2 THEN /\ r.TableInput.TTL # Nil
                     /\ \E a \in DOMAIN M : M[a].op = "CreateTable" /\ M[a].err = NoError
  ELSE IF s = 3 THEN r.UpdateTTLInput # Nil
  ELSE s - 3 \in DOMAIN r.UpdateTableInput

\* the errors after which the executor of c.op sleeps and calls again
Retryable(c) ==
  /\ c.err.aws
  /\ \/ c.op = "UpdateTimeToLive" /\ c.err.code = ErrCodeResourceInUseException
     \/ c.op = "UpdateTable" /\ c.err.code \in {ErrCodeResourceInUseException,
                                                 ErrCodeLimitExceededException}

\* call a is attempt number Attempt(r, M, a) of its action
RECURSIVE Attempt(_, _, _)
Attempt(r, M, a) ==
  IF a > 1 /\ CallAction(r, M[a - 1]) = CallAction(r, M[a])
  THEN 1 + Attempt(r, M, a - 1)
  ELSE 1

\* with call a the executor of its action returns
Returns(r, M, a) ==
  \/ M[a].err = NoError
  \/ ~Retryable(M[a])
  \/ Attempt(r, M, a) = MultiIndexUpdateRetryAttempts

\* the error the executor returns with call a
ReturnedError(r, M, a) ==
  IF Retryable(M[a]) THEN ErrRequestWithMaxRetry ELSE M[a].err

\* the errors the executors returned, in the order of the calls
RECURSIVE ReturnedErrors(_, _, _)
ReturnedErrors(r, M, a) ==
  IF a > Len(M) THEN <<>>
  ELSE (IF Returns(r, M, a) /\ M[a].err # NoError
        THEN <<ReturnedError(r, M, a)>> ELSE <<>>) \o ReturnedErrors(r, M, a + 1)

\* the results Migrate works on and does not refuse
Migrating == {i \in DOMAIN mpc : mpc[i] # "idle" /\ ~migrateRefused(res[i])}

\* C8: the calls for a migratable result come in the order CreateTable, the
\* TTL update of the created table, UpdateTTL, then the queued update requests
\* in queue order, each with the request of its action; a call of the same
\* action follows only a retryable answer, and the first call of another
\* action follows only once the executor of the previous one has returned,
\* with no due action left out in between
C8_CallOrder ==
  \A i \in Migrating :
    LET r == res[i]
        M == MutationCalls(sentBy[i])
    IN \A a \in DOMAIN M :
         LET s == CallAction(r, M[a])
             p == IF a = 1 THEN 0 ELSE CallAction(r, M[a - 1])
         IN /\ s > 0
            /\ ActionDue(r, M, s)
            /\ M[a].arg = ActionRequest(r, s)
            /\ p <= s
            /\ p = s => (~Returns(r, M, a - 1))
            /\ p < s =>
                 /\ a > 1 => Returns(r, M, a - 1)
                 /\ \A q \in (p + 1)..(s - 1) : ~ActionDue(r, SubSeq(M, 1, a - 1), q)

\* the TTL was updated, then two update requests were sent in queue order,
\* one of them twice
C8_Witness ==
  \E i \in Migrating :
    LET r == res[i]
        M == MutationCalls(sentBy[i])
    IN /\ mpc[i] = "done"
       /\ Len(r.UpdateTableInput) = 2
       /\ Len(M) = 4
       /\ CallAction(r, M[1]) = 3
       /\ CallAction(r, M[2]) = 4
       /\ CallAction(r, M[3]) = 4
       /\ CallAction(r, M[4]) = 5

\* a table was created and its TTL set right after
C8_WitnessCreate ==
  \E i \in Migrating :
    LET M == MutationCalls(sentBy[i])
    IN /\ mpc[i] = "done"
       /\ Len(M) = 2
       /\ M[1].op = "CreateTable"
       /\ M[2].op = "UpdateTimeToLive"

\* C9: when migrate has returned for a table, every due action was attempted
\* whatever the earlier actions answered, and the table's Errors are exactly
\* the errors its executors returned, one per failed action, in the order the
\* actions were applied (so empty iff none failed); all of it is a matter of
\* the calls made for that table alone
C9_ErrorsPerAction ==
  \A i \in Migrating :
    mpc[i] = "done" =>
      LET r == res[i]
          M == MutationCalls(sentBy[i])
      IN /\ \A s \in 1..(3 + Len(r.UpdateTableInput)) :
              ActionDue(r, M, s) => \E a \in DOMAIN M : CallAction(r, M[a]) = s
         /\ Deref(ms[i]).Errors = ReturnedErrors(r, M, 1)
         /\ Deref(ms[i]).TableInput = r.TableInput
         /\ (Deref(ms[i]).Errors = <<>>) <=>
              (\A a \in DOMAIN M : Returns(r, M, a) => M[a].err = NoError)

\* two actions of one table failed and the one after them was still applied
C9_Witness ==
  \E i \in Migrating :
    LET r == res[i]
        M == MutationCalls(sentBy[i])
    IN /\ mpc[i] = "done"
       /\ Len(Deref(ms[i]).Errors) = 2
       /\ Deref(ms[i]).Errors[1] # Deref(ms[i]).Errors[2]
       /\ M[Len(M)].err = NoError
       /\ CallAction(r, M[Len(M)]) = 5

\* the errors collected so far for result i
CollectedErrors(i) == IF mpc[i] = "done" THEN Deref(ms[i]).Errors ELSE mlocal[i].errs

\* C10: when an UpdateTable or UpdateTimeToLive call succeeds, every earlier
\* call of the same action failed with a retryable error, the success comes
\* within the attempt ceiling, no later call is made for that action, and the
\* action adds no error to the table's errors
C10_RetryThenSuccess ==
  \A i \in Migrating :
    LET r == res[i]
        M == MutationCalls(sentBy[i])
    IN /\ \A a \in DOMAIN M :
            (M[a].op \in {"UpdateTable", "UpdateTimeToLive"} /\ M[a].err = NoError) =>
               /\ Attempt(r, M, a) <= MultiIndexUpdateRetryAttempts
               /\ \A b \in DOMAIN M :
                    (b # a /\ CallAction(r, M[b]) = CallAction(r, M[a])) =>
                       (b < a /\ Retryable(M[b]))
       /\ Len(CollectedErrors(i)) =
            Cardinality({a \in DOMAIN M : Returns(r, M, a) /\ M[a].err # NoError})

\* an update request was answered resource-in-use twice, then accepted, and
\* the table was migrated without error
C10_Witness ==
  \E i \in Migrating :
    LET r == res[i]
        M == MutationCalls(sentBy[i])
    IN /\ mpc[i] = "done"
       /\ Deref(ms[i]).Errors = <<>>
       /\ \E a \in DOMAIN M :
            /\ M[a].op = "UpdateTable" /\ M[a].err = NoError
            /\ Attempt(r, M, a) = 3
            /\ M[a - 1].err = AwsError(ErrCodeResourceInUseException)
            /\ M[a - 2].err = AwsError(ErrCodeResourceInUseException)

\* the place in the table's errors of the error returned with call a
ErrorIndex(r, M, a) ==
  Cardinality({b \in 1..a : Returns(r, M, b) /\ M[b].err # NoError})

\* the calls of the executors with a retry loop
IsRetriedOp(c) == c.op \in {"UpdateTimeToLive", "UpdateTable"}

\* call a is the last call so far and the executor of its action has not
\* returned yet: it sleeps before the loop condition is tested again
InLoop(i, r, M, a) ==
  /\ a = Len(M)
  /\ IF M[a].op = "UpdateTimeToLive" THEN mpc[i] \in {"createTableTTL", "updateTTL"}
     ELSE mpc[i] = "updateTable" /\ mlocal[i].k = CallAction(r, M[a]) - 3

\* C11: an UpdateTimeToLive or UpdateTable action never makes more than
\* MultiIndexUpdateRetryAttempts calls; when its call number
\* MultiIndexUpdateRetryAttempts is answered with a retryable error too, no
\* further call is made for the action and, once the executor has slept and
\* left its loop, the error recorded for it in the table's errors is
\* ErrRequestWithMaxRetry, not the service error
C11_RetryExhaustion ==
  \A i \in Migrating :
    LET r == res[i]
        M == MutationCalls(sentBy[i])
    IN \A a \in DOMAIN M :
         /\ Attempt(r, M, a) <= MultiIndexUpdateRetryAttempts
         /\ (a >= MultiIndexUpdateRetryAttempts /\ IsRetriedOp(M[a]) /\ Retryable(M[a])
               /\ Attempt(r, M, a) = MultiIndexUpdateRetryAttempts) =>
              /\ \A b \in DOMAIN M : b > a => CallAction(r, M[b]) # CallAction(r, M[a])
              /\ InLoop(i, r, M, a) => mlocal[i].i = MultiIndexUpdateRetryAttempts
              /\ ~InLoop(i, r, M, a) =>
                   /\ ErrorIndex(r, M, a) \in DOMAIN CollectedErrors(i)
                   /\ CollectedErrors(i)[ErrorIndex(r, M, a)] = ErrRequestWithMaxRetry

\* an update request was answered resource-in-use a hundred times; the table
\* is done with the single error ErrRequestWithMaxRetry although the service
\* would have throttled once more
C11_Witness ==
  \E i \in Migrating :
    LET M == MutationCalls(sentBy[i])
    IN /\ mpc[i] = "done"
       /\ svc.busy > 0
       /\ Len(M) = MultiIndexUpdateRetryAttempts
       /\ \A a \in DOMAIN M :
            M[a].op = "UpdateTable" /\ M[a].err = AwsError(ErrCodeResourceInUseException)
       /\ Deref(ms[i]).Errors = <<ErrRequestWithMaxRetry>>

\* C12: when an UpdateTimeToLive or UpdateTable call is answered with an error
\* that is not retryable for it (another service code, or no service code at
\* all), on whichever attempt, no further call is made for that action and
\* the error recorded for it is that same error
C12_NonTransientReturned ==
  \A i \in Migrating :
    LET r == res[i]
        M == MutationCalls(sentBy[i])
    IN \A a \in DOMAIN M :
         (IsRetriedOp(M[a]) /\ M[a].err # NoError /\ ~Retryable(M[a])) =>
            /\ \A b \in DOMAIN M : b > a => CallAction(r, M[b]) # CallAction(r, M[a])
            /\ ErrorIndex(r, M, a) \in DOMAIN CollectedErrors(i)
            /\ CollectedErrors(i)[ErrorIndex(r, M, a)] = M[a].err

\* the TTL update was answered resource-in-use 49 times and then with an error
\* that carries no service code, which is the table's only error
C12_Witness ==
  \E i \in Migrating :
    LET M == MutationCalls(sentBy[i])
    IN /\ mpc[i] = "done"
       /\ Len(M) = 50
       /\ \A a \in 1..49 : M[a].op = "UpdateTimeToLive" /\ Retryable(M[a])
       /\ M[50].op = "UpdateTimeToLive"
       /\ M[50].err = PlainError("RequestError")
       /\ Deref(ms[i]).Errors = <<PlainError("RequestError")>>

\* after call a, the last one so far, the executor of its action is still in
\* its loop: it calls again unless the attempts are used up
RetryPending(i, r, M, a) ==
  /\ a = Len(M)
  /\ IF M[a].op = "CreateTable" THEN mpc[i] = "createTable"
     ELSE IF M[a].op = "UpdateTimeToLive" THEN mpc[i] \in {"createTableTTL", "updateTTL"}
     ELSE mpc[i] = "updateTable" /\ mlocal[i].k = CallAction(r, M[a]) - 3

\* call a is followed by another call of the same action, made or pending
Retried(i, r, M, a) ==
  \/ a < Len(M) /\ CallAction(r, M[a + 1]) = CallAction(r, M[a])
  \/ RetryPending(i, r, M, a)

\* C13 as claimed: a CreateTable call answered resource-in-use below the
\* attempt ceiling is followed by another CreateTable call
C13_CreateTableRetried ==
  \A i \in Migrating :
    LET r == res[i]
        M == MutationCalls(sentBy[i])
    IN \A a \in DOMAIN M :
         (/\ M[a].op = "CreateTable"
          /\ M[a].err = AwsError(ErrCodeResourceInUseException)
          /\ Attempt(r, M, a) < MultiIndexUpdateRetryAttempts) => Retried(i, r, M, a)

\* C14: below the attempt ceiling, an UpdateTable call answered limit-exceeded
\* or resource-in-use is followed by another call of the same request, and so
\* is an UpdateTimeToLive call answered resource-in-use; an UpdateTimeToLive
\* call answered limit-exceeded is the last call of its action and
\* limit-exceeded itself is the error recorded for it
C14_LimitExceededPerKind ==
  \A i \in Migrating :
    LET r == res[i]
        M == MutationCalls(sentBy[i])
        Below(a) == Attempt(r, M, a) < MultiIndexUpdateRetryAttempts
    IN \A a \in DOMAIN M :
         /\ (/\ M[a].op = "UpdateTable"
             /\ M[a].err \in {AwsError(ErrCodeLimitExceededException),
                               AwsError(ErrCodeResourceInUseException)}
             /\ Below(a)) => Retried(i, r, M, a)
         /\ (/\ M[a].op = "UpdateTimeToLive"
             /\ M[a].err = AwsError(ErrCodeResourceInUseException)
             /\ Below(a)) => Retried(i, r, M, a)
         /\ (/\ M[a].op = "UpdateTimeToLive"
             /\ M[a].err = AwsError(ErrCodeLimitExceededException)) =>
               /\ ~Retried(i, r, M, a)
               /\ ErrorIndex(r, M, a) \in DOMAIN CollectedErrors(i)
               /\ CollectedErrors(i)[ErrorIndex(r, M, a)] =
                    AwsError(ErrCodeLimitExceededException)

\* the TTL update was answered limit-exceeded and given up after one call,
\* the update request that followed was answered limit-exceeded and sent again
C14_Witness ==
  \E i \in Migrating :
    LET M == MutationCalls(sentBy[i])
    IN /\ mpc[i] = "done"
       /\ Len(M) >= 3
       /\ M[1].op = "UpdateTimeToLive"
       /\ M[1].err = AwsError(ErrCodeLimitExceededException)
       /\ M[2].op = "UpdateTable"
       /\ M[2].err = AwsError(ErrCodeLimitExceededException)
       /\ M[3].op = "UpdateTable"
       /\ M[3].arg = M[2].arg
       /\ M[3].err = NoError
       /\ Deref(ms[i]).Errors = <<AwsError(ErrCodeLimitExceededException)>>

\* what Validate finds for table t when run against the service as it is now
\* and answered without failure
ValidateAgain(t) == Deref(compare(tables[t], env, LiveAt(TableAddress(t))).result)

\* the live table of t equals what its configuration asks for
InSync(t) ==
  /\ LiveAt(TableAddress(t)) # Nil
  /\ LET live == Deref(LiveAt(TableAddress(t)))
         input == CreateTableInput(tables[t], env)
     IN /\ live.Table.AttributeDefinitions = input.AttributeDefinitions
        /\ live.Table.KeySchema = input.KeySchema
        /\ live.Table.ProvisionedThroughput = input.ProvisionedThroughput
        /\ live.Table.LocalSecondaryIndexes = <<>>
        /\ Len(live.Table.GlobalSecondaryIndexes) = Len(input.GlobalSecondaryIndexes)
        /\ \A k \in DOMAIN input.GlobalSecondaryIndexes :
             live.Table.GlobalSecondaryIndexes[k] = input.GlobalSecondaryIndexes[k]
        /\ live.TTL = LiveTTL(tables[t], "match")

\* C15 as claimed: once Migrate has returned, a table whose MigrationResult
\* has no errors has an empty diff when validated again, and a table in sync
\* with its configuration has an empty diff and no actions
C15_Convergence ==
  /\ pc = "migrated" =>
       \A i \in DOMAIN ms :
         (ms[i] # Nil /\ Deref(ms[i]).Errors = <<>>) =>
            ValidateAgain(sentBy[i]).Diff = <<>>
  /\ \A t \in Slots :
       InSync(t) =>
         /\ ValidateAgain(t).Diff = <<>>
         /\ ValidateAgain(t).CreateTableInput = Nil
         /\ ValidateAgain(t).UpdateTTLInput = Nil
         /\ ValidateAgain(t).UpdateTableInput = <<>>

\* the entries of a list of attribute definitions
Entries(defs) == {defs[k] : k \in DOMAIN defs}

\* the live and the desired attribute definitions of table t
LiveAttributes(t) == Deref(LiveAt(TableAddress(t))).Table.AttributeDefinitions
DesiredAttributes(t) == CreateTableInput(tables[t], env).AttributeDefinitions

\* C16: for a live and a desired list of attribute definitions that hold the
\* same (name, type) entries, in whatever order, DiffAttributeDefinitions is
\* empty; for lists that differ in an entry it is not; and the diff Validate
\* reports for the table starts with the attribute-definition part exactly in
\* the second case
C16_AttributeOrderIndependent ==
  \A t \in Slots :
    LiveAt(TableAddress(t)) # Nil =>
      LET d == DiffAttributeDefinitions(LiveAttributes(t), DesiredAttributes(t))
          same == /\ Entries(LiveAttributes(t)) = Entries(DesiredAttributes(t))
                  /\ Len(LiveAttributes(t)) = Len(DesiredAttributes(t))
      IN /\ d = <<>> <=> same
         /\ DiffAttributeDefinitions(DesiredAttributes(t), LiveAttributes(t)) = <<>>
              <=> same
         /\ vpc[t] = "done" /\ pc = "Validate" =>
              (vlocal[t].diff # <<>> /\ vlocal[t].diff[1] = "Attribute Definition: ")
                 <=> ~same

\* Validate has returned an empty diff for a table whose live attribute
\* definitions are the desired ones in another order that is not the reverse
C16_Witness ==
  /\ pc = "validated"
  /\ \E t \in Slots :
       /\ LiveAt(TableAddress(t)) # Nil
       /\ Len(LiveAttributes(t)) = 4
       /\ LiveAttributes(t) # DesiredAttributes(t)
       /\ LiveAttributes(t) # Reverse(DesiredAttributes(t))
       /\ Entries(LiveAttributes(t)) = Entries(DesiredAttributes(t))
       /\ \E i \in DOMAIN res : sentBy[i] = t /\ res[i].Diff = <<>>

\* Validate has returned the attribute-definition diff for a table whose live
\* attribute definitions have one more entry
C16_WitnessMember ==
  /\ pc = "validated"
  /\ \E t \in Slots :
       /\ LiveAt(TableAddress(t)) # Nil
       /\ Entries(DesiredAttributes(t)) \subseteq Entries(LiveAttributes(t))
       /\ Entries(LiveAttributes(t)) # Entries(DesiredAttributes(t))
       /\ \E i \in DOMAIN res :
            sentBy[i] = t /\ res[i].Diff = <<"Attribute Definition: ", CmpText>>

\* the live and the desired indexes of table t, and what DiffGSI makes of them
LiveIndexes(t) == Deref(LiveAt(TableAddress(t))).Table.GlobalSecondaryIndexes
DesiredIndexes(t) == CreateTableInput(tables[t], env).GlobalSecondaryIndexes
IndexDiff(t) == DiffGSI(LiveIndexes(t), DesiredIndexes(t))

\* the desired index g is missing live / is live under its name
IndexMissing(t, g) == g.IndexName \notin LiveIndexNames(LiveIndexes(t))
LiveIndexOf(t, g) == LiveIndexMap(LiveIndexes(t))[g.IndexName]

\* the desired index g is live with another key schema or projection
IndexChanged(t, g) ==
  /\ ~IndexMissing(t, g)
  /\ \/ DiffKeySchema(LiveIndexOf(t, g).KeySchema, g.KeySchema) # <<>>
     \/ DiffProjection(LiveIndexOf(t, g).Projection, g.Projection) # <<>>

\* the desired index g is live with another throughput
IndexThroughputDiffers(t, g) ==
  /\ ~IndexMissing(t, g)
  /\ LiveIndexOf(t, g).ProvisionedThroughput # g.ProvisionedThroughput

\* the actions DiffGSI produced for the index named n
ActionsFor(t, n) ==
  {k \in DOMAIN IndexDiff(t).GSIInput : IndexDiff(t).GSIInput[k].IndexName = n}

\* the diff text holds the two pieces a, b one after the other
HasPieces(diff, a, b) ==
  \E j \in 1..(Len(diff) - 1) : diff[j] = a /\ diff[j + 1] = b

\* the live table of t is there and compare has looked at it in this Validate
Compared(t) ==
  /\ LiveAt(TableAddress(t)) # Nil
  /\ pc = "Validate"
  /\ vpc[t] \in {"describeTTL", "send", "done"}
  /\ calls[t][1].err = NoError

\* C17 as claimed: for every desired index missing live, the diff of DiffGSI
\* holds "missing index: <name>" and exactly one action is produced for it, a
\* Create with the desired key schema, projection and throughput; and when
\* missing indexes are the only difference the table stays migratable
C17_MissingIndexes ==
  \A t \in Slots :
    Compared(t) =>
      /\ \A k \in DOMAIN DesiredIndexes(t) :
           LET g == DesiredIndexes(t)[k]
           IN IndexMissing(t, g) =>
                /\ HasPieces(IndexDiff(t).Diff, "missing index: ", g.IndexName)
                /\ Cardinality(ActionsFor(t, g.IndexName)) = 1
                /\ \A a \in ActionsFor(t, g.IndexName) :
                     IndexDiff(t).GSIInput[a] = CreateIndexAction(g)
      /\ (\A k \in DOMAIN DesiredIndexes(t) :
             LET g == DesiredIndexes(t)[k]
             IN ~IndexChanged(t, g) /\ ~IndexThroughputDiffers(t, g)) =>
           /\ IndexDiff(t).CanMigrate
           /\ vlocal[t].canMigrate

\* C18 as claimed: for every desired index that is live with another key
\* schema or projection, the diff is non-empty, DiffGSI produces no action for
\* that index, the table is not migratable and no mutating call is made for it
C18_ChangedIndexNoAction ==
  /\ \A t \in Slots :
       Compared(t) =>
         \A k \in DOMAIN DesiredIndexes(t) :
           LET g == DesiredIndexes(t)[k]
           IN IndexChanged(t, g) =>
                /\ IndexDiff(t).Diff # <<>>
                /\ ActionsFor(t, g.IndexName) = {}
                /\ ~IndexDiff(t).CanMigrate
                /\ ~vlocal[t].canMigrate
                /\ vlocal[t].diff # <<>>
                /\ \A u \in DOMAIN vlocal[t].result.UpdateTableInput :
                     vlocal[t].result.UpdateTableInput[u].GlobalSecondaryIndexUpdates = <<>>
  /\ \A i \in DOMAIN mpc :
       (~res[i].CanMigrate /\ res[i].Error = NoError) => MutationCalls(sentBy[i]) = <<>>

\* the desired index g is live and differs in nothing but, perhaps, throughput
IndexKept(t, g) == ~IndexMissing(t, g) /\ ~IndexChanged(t, g)

\* the update requests of r that carry an action for the index named n
RequestsFor(r, n) ==
  {u \in DOMAIN r.UpdateTableInput :
     \E a \in DOMAIN r.UpdateTableInput[u].GlobalSecondaryIndexUpdates :
        r.UpdateTableInput[u].GlobalSecondaryIndexUpdates[a].IndexName = n}

\* C19: for a desired index that is live with the same key schema and
\* projection and another throughput, the diff is non-empty and exactly one
\* action is produced for the index, an Update naming it with the desired
\* throughput; an index whose throughput matches too gets no action, and the
\* diff of DiffGSI is empty when all desired indexes are like that; when no
\* desired index is live with another key schema or projection, CanMigrate is
\* true and compare queues each action as an update request of its own
C19_IndexThroughput ==
  \A t \in Slots :
    Compared(t) =>
      /\ \A k \in DOMAIN DesiredIndexes(t) :
           LET g == DesiredIndexes(t)[k]
           IN /\ (IndexKept(t, g) /\ IndexThroughputDiffers(t, g)) =>
                   /\ IndexDiff(t).Diff # <<>>
                   /\ vlocal[t].diff # <<>>
                   /\ Cardinality(ActionsFor(t, g.IndexName)) = 1
                   /\ \A a \in ActionsFor(t, g.IndexName) :
                        IndexDiff(t).GSIInput[a] = UpdateIndexAction(g)
              /\ (IndexKept(t, g) /\ ~IndexThroughputDiffers(t, g)) =>
                   ActionsFor(t, g.IndexName) = {}
      /\ (\A k \in DOMAIN DesiredIndexes(t) :
             LET g == DesiredIndexes(t)[k]
             IN IndexKept(t, g) /\ ~IndexThroughputDiffers(t, g)) =>
           IndexDiff(t).Diff = <<>> /\ IndexDiff(t).GSIInput = <<>>
      /\ (\A k \in DOMAIN DesiredIndexes(t) : ~IndexChanged(t, DesiredIndexes(t)[k])) =>
           /\ IndexDiff(t).CanMigrate
           /\ vlocal[t].canMigrate
           /\ \A k \in DOMAIN DesiredIndexes(t) :
                Cardinality(RequestsFor(vlocal[t].result, DesiredIndexes(t)[k].IndexName)) =
                Cardinality(ActionsFor(t, DesiredIndexes(t)[k].IndexName))

\* Validate has returned a migratable result for a table whose first index
\* differs in throughput only and whose second index matches: one update
\* request, carrying the Update action for the first index
C19_Witness ==
  /\ pc = "validated"
  /\ \E i \in DOMAIN res :
       LET t == sentBy[i]
           g == DesiredIndexes(t)
       IN /\ LiveAt(TableAddress(t)) # Nil
          /\ Len(g) = 2
          /\ IndexKept(t, g[1]) /\ IndexThroughputDiffers(t, g[1])
          /\ IndexKept(t, g[2]) /\ ~IndexThroughputDiffers(t, g[2])
          /\ res[i].CanMigrate
          /\ res[i].Diff # <<>>
          /\ Len(res[i].UpdateTableInput) = 1
          /\ res[i].UpdateTableInput[1].GlobalSecondaryIndexUpdates =
               <<UpdateIndexAction(g[1])>>

\* the live table of t differs from its configuration in the table
\* throughput and in nothing else
ThroughputOnly(t) ==
  /\ LiveAt(TableAddress(t)) # Nil
  /\ LET live == Deref(LiveAt(TableAddress(t)))
         input == CreateTableInput(tables[t], env)
     IN /\ live.Table.AttributeDefinitions = input.AttributeDefinitions
        /\ live.Table.KeySchema = input.KeySchema
        /\ live.Table.ProvisionedThroughput # input.ProvisionedThroughput
        /\ live.Table.LocalSecondaryIndexes = <<>>
        /\ Len(live.Table.GlobalSecondaryIndexes) = Len(input.GlobalSecondaryIndexes)
        /\ \A k \in DOMAIN input.GlobalSecondaryIndexes :
             live.Table.GlobalSecondaryIndexes[k] = input.GlobalSecondaryIndexes[k]
        /\ live.TTL = LiveTTL(tables[t], "match")

\* the request that sets the table throughput of tbl to the desired units
ThroughputRequest(tbl) ==
  [UpdateTableInputBase(tbl, env) EXCEPT
     !.ProvisionedThroughput =
        Ptr([ReadCapacityUnits |-> tbl.ReadThroughput,
             WriteCapacityUnits |-> tbl.WriteThroughput])]

\* the result of a table that differs in table throughput only
ThroughputResult(tbl) ==
  [NewValidationResult(tbl) EXCEPT
     !.Diff = <<", Throughput: ", CmpText>>,
     !.CanMigrate = TRUE,
     !.UpdateTableInput = <<ThroughputRequest(tbl)>>]

\* the fetches of table t in this Validate were all answered
FetchedAll(t) ==
  /\ pc = "Validate"
  /\ vpc[t] \in {"send", "done"}
  /\ \A c \in DOMAIN calls[t] : calls[t][c].err = NoError

\* C20: a live table that differs from its configuration in table throughput
\* only gets a result with a non-empty diff, CanMigrate = true, no create and
\* no TTL action and exactly one update request, which carries the desired
\* read and write units; for such a result Migrate sends that request and
\* nothing else, and once the request is accepted the live table has the
\* desired throughput
C20_TableThroughput ==
  /\ \A t \in Slots :
       (FetchedAll(t) /\ ThroughputOnly(t)) =>
          vlocal[t].result = ThroughputResult(tables[t])
  /\ \A i \in DOMAIN mpc :
       LET t == sentBy[i]
           M == MutationCalls(t)
       IN res[i] = ThroughputResult(tables[t]) =>
            /\ \A a \in DOMAIN M :
                 /\ M[a].op = "UpdateTable"
                 /\ M[a].arg = <<ThroughputRequest(tables[t])>>
                 /\ M[a].err = NoError => a = Len(M)
            /\ (mpc[i] = "done" /\ Deref(ms[i]).Errors = <<>>) =>
                 /\ M # <<>>
                 /\ M[Len(M)].err = NoError
                 /\ Deref(LiveAt(TableAddress(t))).Table.ProvisionedThroughput =
                      [ReadCapacityUnits |-> tables[t].ReadThroughput,
                       WriteCapacityUnits |-> tables[t].WriteThroughput]

\* the one throughput request of a table was sent once and accepted
C20_Witness ==
  \E i \in DOMAIN mpc :
    LET t == sentBy[i]
        M == MutationCalls(t)
    IN /\ res[i] = ThroughputResult(tables[t])
       /\ mpc[i] = "done"
       /\ Len(M) = 1
       /\ M[1].err = NoError
       /\ Deref(ms[i]).Errors = <<>>
       /\ InSync(t)

\* the live description of t without the indexes its configuration does not
\* declare: global ones of another name, and all local ones
WithoutExtraIndexes(t) ==
  LET desc == Deref(LiveAt(TableAddress(t))).Table
      names == {DesiredIndexes(t)[k].IndexName : k \in DOMAIN DesiredIndexes(t)}
  IN [desc EXCEPT
        !.GlobalSecondaryIndexes = SelectSeq(@, LAMBDA g : g.IndexName \in names),
        !.LocalSecondaryIndexes = <<>>]

\* the live table of t has an index its configuration does not declare
HasExtraIndexes(t) ==
  Deref(LiveAt(TableAddress(t))).Table # WithoutExtraIndexes(t)

\* C21 as claimed: compare finds for a live table the diff, the update
\* requests and the CanMigrate it finds for the same table without its
\* undeclared indexes, and no action other than Create and Update is produced
C21_ExtraIndexesIgnored ==
  \A t \in Slots :
    Compared(t) =>
      LET without == compareTable(tables[t], env, WithoutExtraIndexes(t))
      IN /\ vlocal[t].diff = without.diff
         /\ vlocal[t].canMigrate = without.canMigrate
         /\ vlocal[t].result.UpdateTableInput = without.result.UpdateTableInput
         /\ \A a \in DOMAIN IndexDiff(t).GSIInput :
              IndexDiff(t).GSIInput[a].Kind \in {"Create", "Update"}

\* the live and the desired attribute definitions of t differ in an entry
AttributesDiffer(t) ==
  Entries(LiveAttributes(t)) # Entries(DesiredAttributes(t))

\* C22 as claimed: a table whose live and desired attribute definitions differ
\* in an entry gets a non-empty diff and CanMigrate = false from compare, in
\* the result Validate returns too, and no mutating call is made for it
C22_AttributeMembership ==
  /\ \A t \in Slots :
       (Compared(t) /\ AttributesDiffer(t)) =>
          /\ vlocal[t].diff # <<>>
          /\ ~vlocal[t].canMigrate
          /\ vpc[t] \in {"send", "done"} =>
               (vlocal[t].result.Diff # <<>> /\ ~vlocal[t].result.CanMigrate)
  /\ \A t \in Slots :
       (LiveAt(TableAddress(t)) # Nil /\ AttributesDiffer(t)) => MutationCalls(t) = <<>>

\* the live key schema of t is not the desired one
KeySchemaDiffers(t) ==
  Deref(LiveAt(TableAddress(t))).Table.KeySchema # CreateTableInput(tables[t], env).KeySchema

\* C23 as claimed: a table whose live key schema differs from the desired one
\* has CanMigrate = false after compare, whatever else differs, and in the
\* result Validate returns
C23_KeySchemaNeverMigratable ==
  \A t \in Slots :
    (Compared(t) /\ KeySchemaDiffers(t)) =>
       /\ ~vlocal[t].canMigrate
       /\ vpc[t] \in {"send", "done"} => ~vlocal[t].result.CanMigrate

\* the live table of t equals its configuration in everything but TTL: the
\* service reports another TTL description, or none
TTLOnly(t) ==
  /\ LiveAt(TableAddress(t)) # Nil
  /\ tables[t].TTL # Nil
  /\ LET live == Deref(LiveAt(TableAddress(t)))
         input == CreateTableInput(tables[t], env)
     IN /\ live.Table.AttributeDefinitions = input.AttributeDefinitions
        /\ live.Table.KeySchema = input.KeySchema
        /\ live.Table.ProvisionedThroughput = input.ProvisionedThroughput
        /\ live.Table.LocalSecondaryIndexes = <<>>
        /\ Len(live.Table.GlobalSecondaryIndexes) = Len(input.GlobalSecondaryIndexes)
        /\ \A k \in DOMAIN input.GlobalSecondaryIndexes :
             live.Table.GlobalSecondaryIndexes[k] = input.GlobalSecondaryIndexes[k]
        /\ live.TTL # LiveTTL(tables[t], "match")

\* C24 as claimed: a table that differs from its configuration in TTL only
\* gets a result with CanMigrate = true, and when every table is in sync or
\* differs in TTL only Validate does not return ErrBackwardIncompatible
C24_TTLMigratable ==
  /\ \A t \in Slots :
       (FetchedAll(t) /\ TTLOnly(t)) => vlocal[t].result.CanMigrate
  /\ (pc = "validated" /\ \A t \in Slots : InSync(t) \/ TTLOnly(t)) =>
       verr # ErrBackwardIncompatible

\* C25 as claimed: once Migrate has returned, an UpdateTimeToLive call with the
\* declared attribute name and enabled flag has been made for every existing
\* table that declares TTL and for which the service reported no TTL
\* configuration
C25_NewTTLApplied ==
  pc = "migrated" =>
    \A t \in Slots :
      (/\ LiveAt(TableAddress(t)) # Nil
       /\ tables[t].TTL # Nil
       /\ \A c \in DOMAIN calls[t] :
            calls[t][c].op = "DescribeTimeToLive" =>
              (calls[t][c].err = NoError /\ Deref(LiveAt(TableAddress(t))).TTL = Nil)
       /\ \E c \in DOMAIN calls[t] : calls[t][c].op = "DescribeTimeToLive") =>
         \E c \in DOMAIN calls[t] :
           /\ calls[t][c].op = "UpdateTimeToLive"
           /\ calls[t][c].arg =
                NewUpdateTimeToLiveInput(tables[t], env, tables[t].TTL)

\* C28 as claimed: every result Validate returns that has a CreateTable, an
\* UpdateTable or an UpdateTTL action queued has a non-empty diff
C28_ActionsHaveDiff ==
  ValidateReturned =>
    \A i \in DOMAIN res :
      (\/ res[i].CreateTableInput # Nil
       \/ res[i].UpdateTTLInput # Nil
       \/ res[i].UpdateTableInput # <<>>) => res[i].Diff # <<>>

\* the name the specification gives a table in the remote service
SpecifiedName(t) ==
  IF tables[t].Title # "" /\ env # ""
  THEN <<tables[t].Title, "-", env, "-", tables[t].TableName>>
  ELSE <<tables[t].TableName>>

\* the TableName field of the request of a call; the describe calls carry
\* nothing but the name
RequestName(call) ==
  IF call.arg = <<>> THEN call.name ELSE call.arg[1].TableName

RemoteOps ==
  {"DescribeTable", "DescribeTimeToLive", "CreateTable", "UpdateTable", "UpdateTimeToLive"}

\* C26: every remote call made for a table, of every kind, names the table
\* title-env-tableName when title and environment are both non-empty and
\* tableName otherwise
C26_OneAddress ==
  \A t \in Slots : \A c \in DOMAIN calls[t] :
    /\ calls[t][c].op \in RemoteOps
    /\ calls[t][c].name = SpecifiedName(t)
    /\ RequestName(calls[t][c]) = SpecifiedName(t)

\* a prefixed table was described, had its TTL and its table updated, and a
\* table without title was created under its bare name in an environment
C26_Witness ==
  /\ env # ""
  /\ \E t \in Slots :
       /\ tables[t].Title # ""
       /\ {"DescribeTable", "DescribeTimeToLive", "UpdateTable", "UpdateTimeToLive"}
            \subseteq {calls[t][c].op : c \in DOMAIN calls[t]}
       /\ \A c \in DOMAIN calls[t] : Len(calls[t][c].name) = 5
  /\ \E t \in Slots :
       /\ tables[t].Title = ""
       /\ \E c \in DOMAIN calls[t] :
            calls[t][c].op = "CreateTable" /\ calls[t][c].name = <<tables[t].TableName>>

\* C29: a result with a CreateTable action has no UpdateTTL and no UpdateTable
\* action; after a CreateTable call that failed no further call is made for
\* the table, and after one that succeeded the only calls are the attempts of
\* one TTL update, each following the create or a throttled attempt
C29_OneTTLAction ==
  /\ ValidateReturned =>
       \A i \in DOMAIN res :
         res[i].CreateTableInput # Nil =>
           (res[i].UpdateTTLInput = Nil /\ res[i].UpdateTableInput = <<>>)
  /\ \A t \in Slots : \A c \in DOMAIN calls[t] :
       calls[t][c].op = "CreateTable" =>
         /\ calls[t][c].err # NoError => c = Len(calls[t])
         /\ \A d \in DOMAIN calls[t] :
              d > c =>
                /\ calls[t][d].op = "UpdateTimeToLive"
                /\ tables[t].TTL # Nil
                /\ d > c + 1 =>
                     (/\ calls[t][d - 1].err.aws
                      /\ calls[t][d - 1].err.code = ErrCodeResourceInUseException)

\* Migrate has returned after a table with TTL was created and its TTL set in
\* two attempts, and after the creation of another table failed
C29_Witness ==
  /\ pc = "migrated"
  /\ \E t \in Slots : \E c \in DOMAIN calls[t] :
       /\ calls[t][c].op = "CreateTable" /\ calls[t][c].err = NoError
       /\ Len(calls[t]) = c + 2
       /\ calls[t][c + 2].op = "UpdateTimeToLive" /\ calls[t][c + 2].err = NoError
  /\ \E t \in Slots :
       /\ tables[t].TTL # Nil
       /\ calls[t][Len(calls[t])].op = "CreateTable"
       /\ calls[t][Len(calls[t])].err # NoError

\* the request carries the table throughput and nothing else, or one
\* CreateIndex or UpdateIndexThroughput and nothing else
OneChange(req) ==
  \/ /\ req.ProvisionedThroughput # Nil
     /\ req.GlobalSecondaryIndexUpdates = <<>>
  \/ /\ req.ProvisionedThroughput = Nil
     /\ Len(req.GlobalSecondaryIndexUpdates) = 1
     /\ req.GlobalSecondaryIndexUpdates[1].Kind \in {"Create", "Update"}

\* the live table throughput of t differs from the desired one
TableThroughputDiffers(t) ==
  Deref(LiveAt(TableAddress(t))).Table.ProvisionedThroughput #
    CreateTableInput(tables[t], env).ProvisionedThroughput

\* the UpdateTable calls made for t that the service did not throttle
UpdateActions(t) ==
  {c \in DOMAIN calls[t] : calls[t][c].op = "UpdateTable" /\ ~IsThrottle(calls[t][c].err)}

\* C27: every UpdateTable request queued by compare and every one sent by
\* Migrate carries one change, the table throughput or one index update; a
\* migratable table fetched without error with n index actions has n requests
\* queued, one more when the throughput differs, and Migrate performs as many
\* UpdateTable actions
C27_OneChangePerRequest ==
  /\ \A t \in Slots : \A c \in DOMAIN calls[t] :
       calls[t][c].op = "UpdateTable" => OneChange(calls[t][c].arg[1])
  /\ \A t \in Slots :
       Compared(t) =>
         /\ \A u \in DOMAIN vlocal[t].result.UpdateTableInput :
              OneChange(vlocal[t].result.UpdateTableInput[u])
         /\ (/\ vlocal[t].canMigrate
             /\ vlocal[t].result.Error = NoError
             /\ IndexDiff(t).Diff # <<>>) =>
              Len(vlocal[t].result.UpdateTableInput) =
                Len(IndexDiff(t).GSIInput) + (IF TableThroughputDiffers(t) THEN 1 ELSE 0)
  /\ pc = "migrated" =>
       \A i \in DOMAIN res :
         (~migrateRefused(res[i]) /\ res[i].Diff # <<>>) =>
           Cardinality(UpdateActions(sentBy[i])) = Len(res[i].UpdateTableInput)

\* Migrate has returned after three UpdateTable calls for one table: the
\* table throughput and two index updates, queued as three requests
C27_Witness ==
  /\ pc = "migrated"
  /\ \E i \in DOMAIN res :
       /\ Len(res[i].UpdateTableInput) = 3
       /\ res[i].UpdateTableInput[1].ProvisionedThroughput # Nil
       /\ Cardinality(UpdateActions(sentBy[i])) = 3
       /\ \E c, d \in UpdateActions(sentBy[i]) :
            /\ calls[sentBy[i]][c].arg[1].GlobalSecondaryIndexUpdates # <<>>
            /\ calls[sentBy[i]][d].arg[1].GlobalSecondaryIndexUpdates # <<>>
            /\ calls[sentBy[i]][c].arg[1].GlobalSecondaryIndexUpdates[1].IndexName #
                 calls[sentBy[i]][d].arg[1].GlobalSecondaryIndexUpdates[1].IndexName

\* the attribute names the keys of a table and of its indexes use
KeyNames(tbl) ==
  ({tbl.PrimaryKey, tbl.SortKey} \cup
   {tbl.Indexes[k].PrimaryKey : k \in DOMAIN tbl.Indexes} \cup
   {tbl.Indexes[k].SortKey : k \in DOMAIN tbl.Indexes}) \ {""}

\* defs declares each key attribute of tbl once and nothing else
DeclaredOnce(tbl, defs) ==
  /\ \A i \in DOMAIN defs : defs[i].AttributeName \in KeyNames(tbl)
  /\ \A n \in KeyNames(tbl) :
       Cardinality({i \in DOMAIN defs : defs[i].AttributeName = n}) = 1

\* C30 as claimed: the attribute-definition list of every CreateTable and
\* UpdateTable request, queued by Validate or sent by Migrate, declares the
\* primary key, the sort key when set and every index key attribute of the
\* table, each exactly once
C30_NoAttributeTwice ==
  /\ ValidateReturned =>
       \A i \in DOMAIN res :
         /\ res[i].CreateTableInput # Nil =>
              DeclaredOnce(res[i].TableInput,
                           Deref(res[i].CreateTableInput).AttributeDefinitions)
         /\ \A u \in DOMAIN res[i].UpdateTableInput :
              DeclaredOnce(res[i].TableInput,
                           res[i].UpdateTableInput[u].AttributeDefinitions)
  /\ \A t \in Slots : \A c \in DOMAIN calls[t] :
       calls[t][c].op \in {"CreateTable", "UpdateTable"} =>
         DeclaredOnce(tables[t], calls[t][c].arg[1].AttributeDefinitions)

\* C32: while Validate runs no step changes the remote state, and every call
\* in the call log of every table is a DescribeTable or a DescribeTimeToLive
C32_ValidateReadOnly ==
  [][pc = "Validate" =>
       /\ remote' = remote
       /\ \A t \in Slots : \A c \in DOMAIN calls'[t] :
            calls'[t][c].op \in {"DescribeTable", "DescribeTimeToLive"}]_vars

\* Validate has returned with a table to create and a TTL update queued for a
\* table whose TTL was fetched, and nothing but the fetches was sent
C32_Witness ==
  /\ pc = "validated"
  /\ \E i \in DOMAIN res : res[i].CreateTableInput # Nil
  /\ \E i \in DOMAIN res :
       /\ res[i].UpdateTTLInput # Nil
       /\ Len(calls[sentBy[i]]) = 2
       /\ calls[sentBy[i]][2].op = "DescribeTimeToLive"
  /\ \A t \in Slots : MutationCalls(t) = <<>>

\* the task of result i has been started and has not finished
TaskRunning(i) == mpc[i] \notin {"idle", "done"}

\* while Migrate runs and once it has returned, ms is as long as the input
\* and a slot that is set carries the TableInfo of the result of its index;
\* Migrate returns only when no task is running, with a task done for exactly
\* the results that have a diff
SlotsInOrder ==
  pc \in {"Migrate", "migrated"} =>
    /\ Len(ms) = Len(res)
    /\ DOMAIN mpc = DOMAIN res
    /\ \A i \in DOMAIN ms :
         ms[i] # Nil =>
           (Deref(ms[i]).TableInput = res[i].TableInput /\ mpc[i] # "idle")
    /\ pc = "migrated" =>
         /\ wg = 0
         /\ \A i \in DOMAIN res :
              /\ ~TaskRunning(i)
              /\ mpc[i] = "done" <=> res[i].Diff # <<>>

\* a step taken while Migrate runs changes slot i only if it is a step of the
\* running task i, starts task i only from the loop iteration of i, never
\* starts a task again, and moves no other task
SlotsWrittenByOwner ==
  pc = "Migrate" =>
    \A i \in DOMAIN ms :
      /\ ms'[i] # ms[i] =>
           /\ TaskRunning(i)
           /\ mpc'[i] # mpc[i]
           /\ \A j \in DOMAIN ms \ {i} :
                 ms'[j] = ms[j] /\ mpc'[j] = mpc[j] /\ mlocal'[j] = mlocal[j]
      /\ (mpc'[i] = "start" /\ mpc[i] # "start") =>
           (mpc[i] = "idle" /\ spawned = i - 1 /\ spawned' = i)
      /\ mpc[i] # "idle" => mpc'[i] # "idle"
      /\ mpc[i] = "done" => (mpc'[i] = "done" /\ ms'[i] = ms[i])

\* C33: the list Migrate returns is as long as its input; slot i is written
\* by the task of result i only, which is started at most once; a slot that
\* is set carries the TableInfo of its input result; and the list is returned
\* after every started task has finished
C33_MigrateSlots ==
  []SlotsInOrder /\ [][SlotsWrittenByOwner]_vars

\* Migrate has returned after two tasks ran, each sent a mutating call for its
\* table and each set its own slot with the TableInfo of its input
C33_Witness ==
  /\ pc = "migrated"
  /\ Len(ms) = 2
  /\ ms[1] # Nil /\ ms[2] # Nil
  /\ Deref(ms[1]).TableInput # Deref(ms[2]).TableInput
  /\ calls[sentBy[1]] # <<>> /\ calls[sentBy[2]] # <<>>
  /\ \E c \in DOMAIN calls[sentBy[1]] : IsMutation(calls[sentBy[1]][c])
  /\ \E c \in DOMAIN calls[sentBy[2]] : IsMutation(calls[sentBy[2]][c])

\* how far the task of result i is in migrate: createTable, the TTL update
\* inside createTable, updateTTL, then one position per queued update request
TaskPosition(i) ==
  IF mpc[i] = "createTable" THEN 0
  ELSE IF mpc[i] = "createTableTTL" THEN 1
  ELSE IF mpc[i] = "updateTTL" THEN 2
  ELSE 2 + mlocal[i].k

\* a bound on the steps the task of result i can still take: a full retry
\* loop and the step that leaves it for every position not yet passed, less
\* the attempts already used at the current one
TaskMeasure(i) ==
  LET positions == 3 + Len(res[i].UpdateTableInput)
      loop == MultiIndexUpdateRetryAttempts + 1
  IN IF mpc[i] = "done" THEN 0
     ELSE IF mpc[i] \in {"idle", "start"}
     THEN (IF res[i].Diff = <<>> THEN 0 ELSE (positions + 1) * loop)
     ELSE (positions - TaskPosition(i)) * loop - mlocal[i].i

RECURSIVE TaskMeasureSum(_)
TaskMeasureSum(n) == IF n = 0 THEN 0 ELSE TaskMeasure(n) + TaskMeasureSum(n - 1)

\* what is left of Migrate: the return, the loop iterations and the tasks
MigrateMeasure ==
  (IF pc = "Migrate" THEN 1 ELSE 0) + (Len(res) - spawned) + TaskMeasureSum(Len(mpc))

\* the actions migrate runs with a retry loop for result r, given that the
\* create call succeeded or not
RetriedActions(r, created) ==
  (IF r.CreateTableInput # Nil /\ created /\ r.TableInput.TTL # Nil THEN 1 ELSE 0) +
  (IF r.UpdateTTLInput # Nil THEN 1 ELSE 0) +
  Len(r.UpdateTableInput)

\* the most mutating calls Migrate makes for result r
CallCeiling(r, M) ==
  (IF r.CreateTableInput # Nil THEN 1 ELSE 0) +
  MultiIndexUpdateRetryAttempts *
    RetriedActions(r, \E a \in DOMAIN M : M[a].op = "CreateTable" /\ M[a].err = NoError)

\* C34: every step taken while Migrate runs decreases a natural-number
\* measure, the wait group counts the running tasks so that Migrate can return
\* once they are done, the mutating calls made for a table are at most one
\* create call and MultiIndexUpdateRetryAttempts calls for each other action,
\* and a call that succeeded or was answered with an error that is not
\* retryable is followed by calls of later actions only
C34_MigrateTerminates ==
  /\ [][pc = "Migrate" => (MigrateMeasure' < MigrateMeasure /\ MigrateMeasure' >= 0)]_vars
  /\ [](pc = "Migrate" =>
          /\ wg = Cardinality({i \in DOMAIN mpc : TaskRunning(i)})
          /\ \A i \in DOMAIN mpc :
               TaskRunning(i) /\ mpc[i] # "start" =>
                 mlocal[i].i <= MultiIndexUpdateRetryAttempts)
  /\ [](\A i \in Migrating :
          LET r == res[i]
              M == MutationCalls(sentBy[i])
          IN /\ Len(M) <= CallCeiling(r, M)
             /\ \A a \in DOMAIN M :
                  (a < Len(M) /\ (M[a].err = NoError \/ ~Retryable(M[a]))) =>
                     CallAction(r, M[a + 1]) > CallAction(r, M[a]))

\* Migrate has returned after an update was throttled on every one of its
\* MultiIndexUpdateRetryAttempts attempts while the service would have
\* throttled once more
C34_Witness ==
  /\ pc = "migrated"
  /\ svc.busy > 0
  /\ \E i \in DOMAIN res :
       LET M == MutationCalls(sentBy[i])
       IN /\ Len(M) = MultiIndexUpdateRetryAttempts
          /\ Len(M) = CallCeiling(res[i], M)
          /\ Retryable(M[Len(M)])

\* C31 as claimed: once compare has looked at the live table of t, the
\* description it fetched has the attribute definitions, the key schema, the
\* indexes and the projected attributes of each index it was fetched with, in
\* the same order
C31_DescriptionUntouched ==
  \A t \in Slots :
    Compared(t) =>
      LET fetched == Deref(LiveAt(TableAddress(t))).Table
          held == Deref(vlocal[t].desc)
      IN /\ held.AttributeDefinitions = fetched.AttributeDefinitions
         /\ held.KeySchema = fetched.KeySchema
         /\ Len(held.GlobalSecondaryIndexes) = Len(fetched.GlobalSecondaryIndexes)
         /\ \A k \in DOMAIN fetched.GlobalSecondaryIndexes :
              held.GlobalSecondaryIndexes[k] = fetched.GlobalSecondaryIndexes[k]

====
